---- MODULE Spec2Model ----
(***************************************************************************)
(* Verification model of the gqlforge resolver execution engine:           *)
(*   - the PostgreSQL query synthesizer (core/postgres/request_template),  *)
(*   - the dedupe / cache envelope around IO evaluation (core/ir/eval_io), *)
(*   - the HTTP request fingerprint (core/http/request_template),          *)
(*   - the gRPC frame decoder and the SSE event parser,                    *)
(*   - the upstream subscription streams and the downstream SSE handler.   *)
(*                                                                         *)
(* Text is modelled as a sequence of atoms.  An atom is a one-character    *)
(* string when it comes from data (identifiers, rendered arguments) and a  *)
(* longer string when it is a fixed piece of syntax written by a format!   *)
(* literal of the source ("SELECT ", " WHERE ", "$1", ...).                *)
(***************************************************************************)
EXTENDS Integers, Sequences, FiniteSets, TLC

VARIABLES
    tmpl,       \* postgres RequestTemplate under render
    ctx,        \* what each Mustache of the template renders to in the context
    rendered,   \* result of RequestTemplate::render, or NotRendered
    env,        \* IO evaluations: operation type per request, IO per evaluation
    pc,         \* where each evaluation of eval_io stands
    cache,      \* request_ctx.cache, per request: IoId -> entry
    dedupe_handler, \* request_ctx.dedupe_handler: scope -> IoId -> entry
    eval,       \* per evaluation: result, upstream call made, entry awaited
    http,       \* an HTTP RequestTemplate rendered for two contexts
    grpc,       \* a GrpcFrameDecoder fed a framed byte stream in chunks
    sse,        \* an SseEventParser fed an event stream in chunks
    sub,        \* a subscription: upstream SSE stream to downstream SSE body
    auth,       \* two Verification values and what and / or make of them
    access,     \* an AccessExpr, the claims it is evaluated on, its result
    schema,     \* migration statements and the DatabaseSchema built from them
    loader,     \* a PostgresDataLoader: callers, batching window, batch result
    rope,       \* Chunk values built by append / concat and their as_vec
    url,        \* an HTTP RequestTemplate, a context and what create_url returns
    pgwire,     \* bytes handed to a PostgreSQL binary decoder and its outcome
    links,      \* a list of Link values and what Links::try_from makes of it
    heap        \* Rc cells of Chunk vectors, the live Chunk values, last edit

sqlVars == <<tmpl, ctx, rendered>>
ioVars == <<env, pc, cache, dedupe_handler, eval>>
libVars == <<auth, access, schema, loader, rope>>
extVars == <<url, pgwire, links, heap>>
vars == <<tmpl, ctx, rendered, env, pc, cache, dedupe_handler, eval,
          http, grpc, sse, sub, auth, access, schema, loader, rope,
          url, pgwire, links, heap>>

----------------------------------------------------------------------------
(* Generic helpers on sequences of atoms                                   *)

RECURSIVE Flatten(_)
Flatten(ss) == IF ss = <<>> THEN <<>> ELSE Head(ss) \o Flatten(Tail(ss))

RECURSIVE JoinWith(_, _)
JoinWith(ss, sep) ==
    IF ss = <<>> THEN <<>>
    ELSE IF Len(ss) = 1 THEN ss[1]
    ELSE ss[1] \o sep \o JoinWith(Tail(ss), sep)

Range(s) == {s[i] : i \in 1..Len(s)}


----------------------------------------------------------------------------
(* core/postgres/request_template.rs                                       *)

DQ == "\""

RECURSIVE ReplaceQuote(_)
\* name.replace('"', "\"\"")
ReplaceQuote(name) ==
    IF name = <<>> THEN <<>>
    ELSE (IF Head(name) = DQ THEN <<DQ, DQ>> ELSE <<Head(name)>>)
         \o ReplaceQuote(Tail(name))

quote_ident(name) == <<DQ>> \o ReplaceQuote(name) \o <<DQ>>

\* format!("${}", n)
Placeholder(n) == <<"$1", "$2", "$3", "$4", "$5", "$6", "$7", "$8", "$9">>[n]

PlaceholderAtoms == {Placeholder(n) : n \in 1..9}

IsWhitespace(c) == c \in {" ", "\t"}

RECURSIVE SplitOn(_, _)
\* str::split(sep): the pieces between separators, empty pieces included
SplitOn(s, sep) ==
    IF \A i \in 1..Len(s) : s[i] # sep THEN <<s>>
    ELSE LET p == CHOOSE i \in 1..Len(s) :
                      s[i] = sep /\ \A j \in 1..(i - 1) : s[j] # sep
         IN <<SubSeq(s, 1, p - 1)>> \o SplitOn(SubSeq(s, p + 1, Len(s)), sep)

RECURSIVE TrimStart(_)
TrimStart(s) ==
    IF s # <<>> /\ IsWhitespace(Head(s)) THEN TrimStart(Tail(s)) ELSE s

RECURSIVE TrimEnd(_)
TrimEnd(s) ==
    IF s # <<>> /\ IsWhitespace(s[Len(s)])
    THEN TrimEnd(SubSeq(s, 1, Len(s) - 1)) ELSE s

Trim(s) == TrimEnd(TrimStart(s))

RECURSIVE SplitWhitespace(_)
\* str::split_whitespace(): maximal runs of non-whitespace characters
SplitWhitespace(s) ==
    LET t == TrimStart(s) IN
    IF t = <<>> THEN <<>>
    ELSE LET n == IF \E i \in 1..Len(t) : IsWhitespace(t[i])
                  THEN (CHOOSE i \in 1..Len(t) :
                           IsWhitespace(t[i])
                           /\ \A j \in 1..(i - 1) : ~IsWhitespace(t[j])) - 1
                  ELSE Len(t)
         IN <<SubSeq(t, 1, n)>> \o SplitWhitespace(SubSeq(t, n + 1, Len(t)))

UpperChar(c) ==
    CASE c = "a" -> "A" [] c = "s" -> "S" [] c = "c" -> "C"
      [] c = "d" -> "D" [] c = "e" -> "E" [] c = "n" -> "N"
      [] c = "i" -> "I" [] c = "x" -> "X" [] OTHER -> c

\* str::to_uppercase()
ToUppercase(s) == [i \in 1..Len(s) |-> UpperChar(s[i])]

AscWord == <<"A", "S", "C">>
DescWord == <<"D", "E", "S", "C">>

\* sanitize_order_by without the whitelist of columns
SanitizePartAnyColumn(rawPart, columns) ==
    LET part == Trim(rawPart) IN
    IF part = <<>> THEN <<>>
    ELSE LET tokens == SplitWhitespace(part)
             col == tokens[1]
             dir == IF Len(tokens) >= 2 THEN ToUppercase(tokens[2]) ELSE <<>>
         IN CASE dir = AscWord -> <<quote_ident(col) \o <<" ASC">>>>
              [] dir = DescWord -> <<quote_ident(col) \o <<" DESC">>>>
              [] dir = <<>> -> <<quote_ident(col)>>
              [] OTHER -> <<>>

\* the closure of filter_map in sanitize_order_by, for one comma-separated
\* part: <<item>> for Some(item), <<>> for None
SanitizePart(rawPart, columns) ==
    LET part == Trim(rawPart) IN
    IF part = <<>> THEN <<>>
    ELSE LET tokens == SplitWhitespace(part)
             col == tokens[1]
         IN IF col \notin Range(columns) THEN <<>>
            ELSE LET dir == IF Len(tokens) >= 2 THEN ToUppercase(tokens[2])
                            ELSE <<>>
                 IN CASE dir = AscWord -> <<quote_ident(col) \o <<" ASC">>>>
                      [] dir = DescWord -> <<quote_ident(col) \o <<" DESC">>>>
                      [] dir = <<>> -> <<quote_ident(col)>>
                      [] OTHER -> <<>>

sanitize_order_by(text, columns) ==
    LET parts == SplitOn(text, ",")
        kept == Flatten([i \in 1..Len(parts) |-> SanitizePart(parts[i], columns)])
    IN JoinWith(kept, <<", ">>)

\* Rendered JSON text of a filter / input Mustache, by what serde_json makes
\* of it: not JSON at all, JSON that is not an object, or an object whose
\* entries are listed in the map's iteration order (keys distinct).
InvalidJson == [kind |-> "invalid", entries |-> <<>>]
ScalarJson == [kind |-> "scalar", entries |-> <<>>]
ObjectJson(es) == [kind |-> "object", entries |-> es]

\* one member of a JSON object: key k, and v the text parse_json_object makes
\* of the value (the content of a JSON string, the serialisation otherwise)
Entry(k, v) == [k |-> k, v |-> v]

Fail(e) == [ok |-> FALSE, sql |-> <<>>, params |-> <<>>, err |-> e]
Done(sql, params) == [ok |-> TRUE, sql |-> sql, params |-> params, err |-> ""]

\* parse_json_object: Err, or Ok(vec of (key, stringified value))
parse_json_object(json) ==
    CASE json.kind = "invalid" -> [ok |-> FALSE, err |-> "InvalidJson", kv |-> <<>>]
      [] json.kind = "scalar" -> [ok |-> FALSE, err |-> "ExpectedObject", kv |-> <<>>]
      [] OTHER ->
           [ok |-> TRUE, err |-> "",
            kv |-> [i \in 1..Len(json.entries) |->
                       [k |-> json.entries[i].k, v |-> json.entries[i].v]]]

\* render_filter numbering its placeholders from $1 whatever the offset
render_filter_unshifted(filterText, offset) ==
    LET parsed == parse_json_object(filterText) IN
    IF ~parsed.ok THEN [ok |-> FALSE, err |-> parsed.err, clause |-> <<>>, params |-> <<>>]
    ELSE LET entries == parsed.kv
             params == [i \in 1..Len(entries) |-> entries[i].v]
             clauses == [i \in 1..Len(entries) |->
                            quote_ident(entries[i].k) \o <<" = ", Placeholder(i)>>]
         IN [ok |-> TRUE, err |-> "",
             clause |-> IF clauses = <<>> THEN <<"TRUE">>
                        ELSE JoinWith(clauses, <<" AND ">>),
             params |-> params]

\* render_filter: Err, or Ok((clause, params)); offset = params already used
render_filter(filterText, offset) ==
    LET parsed == parse_json_object(filterText) IN
    IF ~parsed.ok THEN [ok |-> FALSE, err |-> parsed.err, clause |-> <<>>, params |-> <<>>]
    ELSE LET entries == parsed.kv
             params == [i \in 1..Len(entries) |-> entries[i].v]
             clauses == [i \in 1..Len(entries) |->
                            quote_ident(entries[i].k) \o <<" = ", Placeholder(offset + i)>>]
         IN [ok |-> TRUE, err |-> "",
             clause |-> IF clauses = <<>> THEN <<"TRUE">>
                        ELSE JoinWith(clauses, <<" AND ">>),
             params |-> params]

select_columns(t) ==
    IF t.columns = <<>> THEN <<"*">>
    ELSE JoinWith([i \in 1..Len(t.columns) |-> quote_ident(t.columns[i])], <<", ">>)

\* the part shared by render_select and render_select_one:
\* SELECT cols FROM table [WHERE filter]
SelectHead(t, c) ==
    LET sql0 == <<"SELECT ">> \o select_columns(t) \o <<" FROM ">> \o quote_ident(t.table)
    IN IF t.has_filter
       THEN LET f == render_filter(c.filter, 0) IN
            IF f.ok THEN Done(sql0 \o <<" WHERE ">> \o f.clause, f.params)
            ELSE Fail(f.err)
       ELSE Done(sql0, <<>>)

OrderByClause(t, c) ==
    IF t.has_order_by /\ c.order_by # <<>>
    THEN LET sanitized == sanitize_order_by(c.order_by, t.columns)
         IN IF sanitized # <<>> THEN <<" ORDER BY ">> \o sanitized ELSE <<>>
    ELSE <<>>

\* render_select splicing the rendered limit into the statement
render_select_spliced(t, c) ==
    LET h == SelectHead(t, c) IN
    IF ~h.ok THEN h
    ELSE LET sql1 == h.sql \o OrderByClause(t, c)
             hasLimit == t.has_limit /\ c.limit # <<>>
             sql2 == IF hasLimit THEN sql1 \o <<" LIMIT ">> \o c.limit ELSE sql1
             hasOffset == t.has_offset /\ c.offset # <<>>
             params2 == IF hasOffset THEN Append(h.params, c.offset) ELSE h.params
             sql3 == IF hasOffset
                     THEN sql2 \o <<" OFFSET ", Placeholder(Len(params2))>> ELSE sql2
         IN Done(sql3, params2)

render_select(t, c) ==
    LET h == SelectHead(t, c) IN
    IF ~h.ok THEN h
    ELSE LET sql1 == h.sql \o OrderByClause(t, c)
             hasLimit == t.has_limit /\ c.limit # <<>>
             params1 == IF hasLimit THEN Append(h.params, c.limit) ELSE h.params
             sql2 == IF hasLimit
                     THEN sql1 \o <<" LIMIT ", Placeholder(Len(params1))>> ELSE sql1
             hasOffset == t.has_offset /\ c.offset # <<>>
             params2 == IF hasOffset THEN Append(params1, c.offset) ELSE params1
             sql3 == IF hasOffset
                     THEN sql2 \o <<" OFFSET ", Placeholder(Len(params2))>> ELSE sql2
         IN Done(sql3, params2)

render_select_one(t, c) ==
    LET h == SelectHead(t, c) IN
    IF ~h.ok THEN h ELSE Done(h.sql \o <<" LIMIT 1">>, h.params)

\* input.as_ref().map(|m| m.render(ctx)).unwrap_or_default(): the empty
\* string is not JSON
InputJson(t, c) == IF t.has_input THEN c.input ELSE InvalidJson

UnknownColumns(t, entries) ==
    t.columns # <<>> /\ \E i \in 1..Len(entries) : entries[i].k \notin Range(t.columns)

\* render_insert without the check against the column list
render_insert_unchecked(t, c) ==
    LET parsed == parse_json_object(InputJson(t, c)) IN
    IF ~parsed.ok THEN Fail(parsed.err)
    ELSE IF parsed.kv = <<>> THEN Fail("InsertRequiresField")
    ELSE LET entries == parsed.kv
             cols == [i \in 1..Len(entries) |-> quote_ident(entries[i].k)]
             params == [i \in 1..Len(entries) |-> entries[i].v]
             placeholders == [i \in 1..Len(entries) |-> <<Placeholder(i)>>]
         IN Done(<<"INSERT INTO ">> \o quote_ident(t.table) \o <<" (">>
                   \o JoinWith(cols, <<", ">>) \o <<") VALUES (">>
                   \o JoinWith(placeholders, <<", ">>) \o <<") RETURNING ">>
                   \o select_columns(t),
                 params)

render_insert(t, c) ==
    LET parsed == parse_json_object(InputJson(t, c)) IN
    IF ~parsed.ok THEN Fail(parsed.err)
    ELSE IF parsed.kv = <<>> THEN Fail("InsertRequiresField")
    ELSE IF UnknownColumns(t, parsed.kv) THEN Fail("UnknownColumnInsert")
    ELSE LET entries == parsed.kv
             cols == [i \in 1..Len(entries) |-> quote_ident(entries[i].k)]
             params == [i \in 1..Len(entries) |-> entries[i].v]
             placeholders == [i \in 1..Len(entries) |-> <<Placeholder(i)>>]
         IN Done(<<"INSERT INTO ">> \o quote_ident(t.table) \o <<" (">>
                   \o JoinWith(cols, <<", ">>) \o <<") VALUES (">>
                   \o JoinWith(placeholders, <<", ">>) \o <<") RETURNING ">>
                   \o select_columns(t),
                 params)

\* render_update without the guard on a missing filter
render_update_unguarded(t, c) ==
    LET parsed == parse_json_object(InputJson(t, c)) IN
    IF ~parsed.ok THEN Fail(parsed.err)
    ELSE IF parsed.kv = <<>> THEN Fail("UpdateRequiresField")
    ELSE IF UnknownColumns(t, parsed.kv) THEN Fail("UnknownColumnUpdate")
    ELSE LET entries == parsed.kv
             params == [i \in 1..Len(entries) |-> entries[i].v]
             set_clauses == [i \in 1..Len(entries) |->
                                quote_ident(entries[i].k) \o <<" = ", Placeholder(i)>>]
             sql0 == <<"UPDATE ">> \o quote_ident(t.table) \o <<" SET ">>
                       \o JoinWith(set_clauses, <<", ">>)
             f == IF t.has_filter THEN render_filter(c.filter, Len(params))
                  ELSE [ok |-> TRUE, err |-> "", clause |-> <<>>, params |-> <<>>]
         IN IF ~f.ok THEN Fail(f.err)
            ELSE Done(sql0 \o (IF t.has_filter THEN <<" WHERE ">> \o f.clause ELSE <<>>)
                        \o <<" RETURNING ">> \o select_columns(t),
                      params \o f.params)

render_update(t, c) ==
    IF ~t.has_filter THEN Fail("UpdateWithoutFilter")
    ELSE LET parsed == parse_json_object(InputJson(t, c)) IN
    IF ~parsed.ok THEN Fail(parsed.err)
    ELSE IF parsed.kv = <<>> THEN Fail("UpdateRequiresField")
    ELSE IF UnknownColumns(t, parsed.kv) THEN Fail("UnknownColumnUpdate")
    ELSE LET entries == parsed.kv
             params == [i \in 1..Len(entries) |-> entries[i].v]
             set_clauses == [i \in 1..Len(entries) |->
                                quote_ident(entries[i].k) \o <<" = ", Placeholder(i)>>]
             sql0 == <<"UPDATE ">> \o quote_ident(t.table) \o <<" SET ">>
                       \o JoinWith(set_clauses, <<", ">>)
             f == render_filter(c.filter, Len(params))
         IN IF ~f.ok THEN Fail(f.err)
            ELSE Done(sql0 \o <<" WHERE ">> \o f.clause \o <<" RETURNING ">>
                        \o select_columns(t),
                      params \o f.params)

render_delete(t, c) ==
    IF ~t.has_filter THEN Fail("DeleteWithoutFilter")
    ELSE LET f == render_filter(c.filter, 0) IN
         IF ~f.ok THEN Fail(f.err)
         ELSE Done(<<"DELETE FROM ">> \o quote_ident(t.table) \o <<" WHERE ">> \o f.clause,
                   f.params)

render(t, c) ==
    CASE t.operation = "Select" -> render_select(t, c)
      [] t.operation = "SelectOne" -> render_select_one(t, c)
      [] t.operation = "Insert" -> render_insert(t, c)
      [] t.operation = "Update" -> render_update(t, c)
      [] t.operation = "Delete" -> render_delete(t, c)

----------------------------------------------------------------------------
(* Inputs of the SQL synthesizer                                           *)

MaxEntries == 2       \* members of a rendered filter / input object
MaxOrderWords == 4    \* pieces an orderBy argument is assembled from

ColId == <<"i", "d">>
ColN == <<"n">>
ColOdd == <<"x", DQ>>

Operations == {"Select", "SelectOne", "Insert", "Update", "Delete"}
ColumnLists == {<<>>, <<ColId, ColN>>}
Keys == {ColId, ColOdd}
Values == {<<"7">>, <<"v", "'">>}

RECURSIVE EntrySeqs(_)
\* sequences of exactly n members with pairwise distinct keys
EntrySeqs(n) ==
    IF n = 0 THEN {<<>>}
    ELSE {Append(x[1], Entry(x[2], x[3])) :
            x \in {y \in EntrySeqs(n - 1) \X Keys \X Values :
                      \A i \in 1..Len(y[1]) : y[1][i].k # y[2]}}

JsonTexts ==
    {InvalidJson, ScalarJson}
    \cup {ObjectJson(es) : es \in UNION {EntrySeqs(n) : n \in 0..MaxEntries}}

LimitTexts == {<<>>, <<"5">>, <<"1", ";">>}
OffsetTexts == {<<>>, <<"0">>}
FewOrderTexts == {<<>>, <<"i", "d", " ", "d", "e", "s", "c">>, <<"n", ";", "x">>}

OrderWords ==
    {ColId, ColN, <<"x">>, <<" ", "a", "s", "c">>, <<" ", "D", "e", "s", "c">>,
     <<",">>, <<" ">>, <<";">>}

RECURSIVE WordSeqs(_)
WordSeqs(n) ==
    IF n = 0 THEN {<<>>}
    ELSE {Append(ws, w) : ws \in WordSeqs(n - 1), w \in OrderWords}

OrderTexts == {Flatten(ws) : ws \in UNION {WordSeqs(n) : n \in 0..MaxOrderWords}}

Template(op, cols, f, i, l, o, ob) ==
    [table |-> <<"t", DQ>>, operation |-> op, columns |-> cols,
     has_filter |-> f, has_input |-> i, has_limit |-> l, has_offset |-> o,
     has_order_by |-> ob]

\* what the template's Mustaches render to; a Mustache the template does not
\* have renders nothing
Context(t, f, i, l, o, ob) ==
    [filter |-> IF t.has_filter THEN f ELSE InvalidJson,
     input |-> IF t.has_input THEN i ELSE InvalidJson,
     limit |-> IF t.has_limit THEN l ELSE <<>>,
     offset |-> IF t.has_offset THEN o ELSE <<>>,
     order_by |-> IF t.has_order_by THEN ob ELSE <<>>]

NotRendered == Fail("NotRendered")

SqlIdle == tmpl = <<>> /\ ctx = <<>> /\ rendered = NotRendered
IoIdle == env = <<>> /\ pc = <<>> /\ cache = <<>> /\ dedupe_handler = <<>> /\ eval = <<>>
CodecsIdle == http = <<>> /\ grpc = <<>> /\ sse = <<>> /\ sub = <<>>
LibIdle ==
    auth = <<>> /\ access = <<>> /\ schema = <<>> /\ loader = <<>> /\ rope = <<>>
ExtIdle == url = <<>> /\ pgwire = <<>> /\ links = <<>> /\ heap = <<>>

Init ==
    /\ IoIdle /\ CodecsIdle /\ LibIdle /\ ExtIdle
    /\ \E op \in Operations, cols \in ColumnLists,
          f, i, l, o, ob \in BOOLEAN :
          tmpl = Template(op, cols, f, i, l, o, ob)
    /\ \E f, i \in JsonTexts, l \in LimitTexts, o \in OffsetTexts,
          ob \in FewOrderTexts :
          ctx = Context(tmpl, f, i, l, o, ob)
    /\ rendered = NotRendered

\* RequestTemplate::render(ctx)
Render ==
    /\ rendered = NotRendered
    /\ rendered' = render(tmpl, ctx)
    /\ UNCHANGED <<tmpl, ctx>>
    /\ UNCHANGED <<ioVars, http, grpc, sse, sub, libVars, extVars>>

Next == Render

Spec == Init /\ [][Next]_vars

\* the same renderer, driven by Select templates over a wide range of
\* orderBy arguments
InitOrderBy ==
    /\ IoIdle /\ CodecsIdle /\ LibIdle /\ ExtIdle
    /\ \E cols \in ColumnLists, l \in BOOLEAN :
          tmpl = Template("Select", cols, FALSE, FALSE, l, FALSE, TRUE)
    /\ \E ob \in OrderTexts :
          ctx = Context(tmpl, InvalidJson, InvalidJson, <<"5">>, <<>>, ob)
    /\ rendered = NotRendered

SpecOrderBy == InitOrderBy /\ [][Next]_vars

----------------------------------------------------------------------------
(* Properties of the SQL synthesizer                                       *)

WasRendered == rendered # NotRendered

EntryValues(json) == [i \in 1..Len(json.entries) |-> json.entries[i].v]

FilterValues == IF tmpl.has_filter THEN EntryValues(ctx.filter) ELSE <<>>
InputValues == IF tmpl.has_input THEN EntryValues(ctx.input) ELSE <<>>
LimitValue == IF tmpl.has_limit /\ ctx.limit # <<>> THEN <<ctx.limit>> ELSE <<>>
OffsetValue == IF tmpl.has_offset /\ ctx.offset # <<>> THEN <<ctx.offset>> ELSE <<>>

\* the values the statement has to carry, in placeholder order
ExpectedParams ==
    CASE tmpl.operation = "Select" -> FilterValues \o LimitValue \o OffsetValue
      [] tmpl.operation = "SelectOne" -> FilterValues
      [] tmpl.operation = "Insert" -> InputValues
      [] tmpl.operation = "Update" -> InputValues \o FilterValues
      [] tmpl.operation = "Delete" -> FilterValues

Blank == <<"?">>

BlankJson(json) ==
    [kind |-> json.kind,
     entries |-> [i \in 1..Len(json.entries) |-> Entry(json.entries[i].k, Blank)]]

\* the context with every filter / input / limit / offset value replaced by
\* one fixed text; keys, presence and the orderBy argument are kept
BlankValues(c) ==
    [filter |-> BlankJson(c.filter), input |-> BlankJson(c.input),
     limit |-> IF c.limit = <<>> THEN <<>> ELSE Blank,
     offset |-> IF c.offset = <<>> THEN <<>> ELSE Blank,
     order_by |-> c.order_by]

IsPlaceholder(a) == a \in PlaceholderAtoms

PlaceholdersIn(sql) == SelectSeq(sql, IsPlaceholder)

\* C1: when render succeeds, the sql text is the same whatever the values of
\* filter, input, limit and offset are (no value is spliced into it), params
\* holds exactly those values, and sql refers to them as $1 .. $n, each once
\* and in order.
ValuesOnlyInParams ==
    (WasRendered /\ rendered.ok) =>
        /\ rendered.params = ExpectedParams
        /\ rendered.sql = render(tmpl, BlankValues(ctx)).sql
        /\ PlaceholdersIn(rendered.sql)
             = [k \in 1..Len(rendered.params) |-> Placeholder(k)]

ValuesOnlyInParamsWitness ==
    /\ WasRendered /\ rendered.ok
    /\ tmpl.operation = "Select"
    /\ Len(FilterValues) = 2 /\ LimitValue # <<>> /\ OffsetValue # <<>>
    /\ Len(rendered.params) = 4
    /\ rendered.params[3] = <<"1", ";">>

\* C2: an Update or Delete template without a filter renders to an error and
\* to no query, whatever the context and the input are.
FilterlessWriteRejected ==
    (WasRendered /\ tmpl.operation \in {"Update", "Delete"} /\ ~tmpl.has_filter) =>
        /\ ~rendered.ok
        /\ rendered.sql = <<>>
        /\ rendered.err = (IF tmpl.operation = "Update" THEN "UpdateWithoutFilter"
                           ELSE "DeleteWithoutFilter")

FilterlessWriteRejectedWitness ==
    /\ WasRendered /\ ~rendered.ok
    /\ tmpl.operation = "Update" /\ ~tmpl.has_filter
    /\ tmpl.has_input /\ ctx.input.kind = "object" /\ Len(ctx.input.entries) = 1
    /\ tmpl.columns = <<>>

\* maximal runs of atoms of s outside seps, as index pairs
MaximalRuns(s, seps) ==
    {r \in (1..Len(s)) \X (1..Len(s)) :
        /\ r[1] <= r[2]
        /\ \A k \in r[1]..r[2] : s[k] \notin seps
        /\ (r[1] = 1 \/ s[r[1] - 1] \in seps)
        /\ (r[2] = Len(s) \/ s[r[2] + 1] \in seps)}

RECURSIVE RunsInOrder(_, _)
RunsInOrder(s, runs) ==
    IF runs = {} THEN <<>>
    ELSE LET first == CHOOSE r \in runs : \A q \in runs : r[1] <= q[1]
         IN <<SubSeq(s, first[1], first[2])>> \o RunsInOrder(s, runs \ {first})

\* the non-empty comma-separated items of an orderBy argument
OrderItems(text) == RunsInOrder(text, MaximalRuns(text, {","}))

\* the whitespace-delimited tokens of one item
ItemTokens(item) == RunsInOrder(item, MaximalRuns(item, {" ", "\t"}))

SameLetter(c, upper) ==
    \/ c = upper
    \/ <<c, upper>> \in {<<"a", "A">>, <<"s", "S">>, <<"c", "C">>,
                         <<"d", "D">>, <<"e", "E">>}

MatchesNoCase(w, upper) ==
    Len(w) = Len(upper) /\ \A i \in 1..Len(w) : SameLetter(w[i], upper[i])

\* an item has the accepted form when its first token is a known column and
\* its second token, if there is one, is ASC or DESC in any letter case
HasOrderForm(item, columns) ==
    LET tokens == ItemTokens(item) IN
    /\ tokens # <<>>
    /\ tokens[1] \in Range(columns)
    /\ Len(tokens) >= 2 =>
          (MatchesNoCase(tokens[2], AscWord) \/ MatchesNoCase(tokens[2], DescWord))

\* what an accepted item is emitted as
EmittedOrderItem(item) ==
    LET tokens == ItemTokens(item) IN
    <<DQ>> \o tokens[1] \o <<DQ>>
    \o (IF Len(tokens) >= 2
        THEN (IF MatchesNoCase(tokens[2], AscWord) THEN <<" ASC">> ELSE <<" DESC">>)
        ELSE <<>>)

ExpectedOrderItems ==
    LET items == OrderItems(ctx.order_by) IN
    Flatten([i \in 1..Len(items) |->
                IF HasOrderForm(items[i], tmpl.columns)
                THEN <<EmittedOrderItem(items[i])>> ELSE <<>>])

ExpectedOrderBy ==
    IF tmpl.has_order_by /\ ExpectedOrderItems # <<>>
    THEN <<" ORDER BY ">> \o JoinWith(ExpectedOrderItems, <<", ">>)
    ELSE <<>>

ExpectedLimitOffset ==
    (IF LimitValue # <<>>
     THEN <<" LIMIT ", Placeholder(Len(FilterValues) + 1)>> ELSE <<>>)
    \o (IF OffsetValue # <<>>
        THEN <<" OFFSET ", Placeholder(Len(FilterValues) + Len(LimitValue) + 1)>>
        ELSE <<>>)

\* C3: in a rendered Select the text between the SELECT .. FROM .. WHERE part
\* and the LIMIT / OFFSET part is exactly the accepted items of the orderBy
\* argument, each emitted as the double-quoted known column followed by
\* nothing, ASC or DESC; every other item and every other piece of the
\* argument is dropped, and without an accepted item there is no ORDER BY.
OrderBySanitized ==
    (WasRendered /\ rendered.ok /\ tmpl.operation = "Select") =>
        rendered.sql = SelectHead(tmpl, ctx).sql \o ExpectedOrderBy \o ExpectedLimitOffset

OrderBySanitizedWitness ==
    /\ WasRendered /\ rendered.ok /\ tmpl.operation = "Select"
    /\ Len(OrderItems(ctx.order_by)) = 2
    /\ Len(ExpectedOrderItems) = 1
    /\ " DESC" \in Range(rendered.sql)
    /\ ";" \in Range(ctx.order_by)

----------------------------------------------------------------------------
(* core/ir/eval_io.rs: the dedupe / cache envelope around an IO            *)

NumEvals == 3     \* evaluations of eval_io in the model

Evals == 1..NumEvals

\* evaluations 2r-1 and 2r are the two selections of request r
RequestOf(e) == (e + 1) \div 2
Requests == {RequestOf(e) : e \in Evals}

NoKey == "None"
IoKeys == {"k1"}

\* an IO as eval_io sees it: io.dedupe() and io.cache_key(ctx)
IOs == {[dedupe |-> TRUE, key |-> "k1"], [dedupe |-> FALSE, key |-> "k1"],
        [dedupe |-> TRUE, key |-> NoKey]}

Absent == [state |-> "Absent", owner |-> 0, value |-> 0]
Pending(e) == [state |-> "Pending", owner |-> e, value |-> 0]
Ready(v) == [state |-> "Ready", owner |-> 0, value |-> v]

is_query(e) == env.op[RequestOf(e)] = "Query"

\* eval_io never taking the envelope
EnvelopeNever(e) == FALSE

\* eval_io deciding on the dedupe flag alone
EnvelopeIgnoringOperation(e) == env.io[e].dedupe /\ env.io[e].key # NoKey

\* eval_io lines 24-29: the envelope is entered iff dedupe, a Query, and a key
UsesEnvelope(e) == env.io[e].dedupe /\ is_query(e) /\ env.io[e].key # NoKey

\* the registry of the dedupe handler an evaluation reaches: one per request,
\* or one for the process
Scope(e) == IF env.shared THEN 0 ELSE RequestOf(e)
Scopes == {0} \cup Requests

NewEval == [result |-> 0, call |-> 0, awaits |-> 0, mail |-> 0, consulted |-> FALSE]

\* upstream calls issued so far; a call's response is identified by its number
CallsIssued == Cardinality({e \in Evals : eval[e].call # 0})

InitIo ==
    /\ SqlIdle /\ CodecsIdle /\ LibIdle /\ ExtIdle
    /\ \E op \in [Requests -> {"Query", "Mutation"}], io \in [Evals -> IOs],
          shared, persist \in BOOLEAN :
          env = [op |-> op, io |-> io, shared |-> shared, persist |-> persist]
    /\ pc = [e \in Evals |-> "start"]
    /\ cache = [r \in Requests |-> [k \in IoKeys |-> Absent]]
    /\ dedupe_handler = [sc \in Scopes |-> [k \in IoKeys |-> Absent]]
    /\ eval = [e \in Evals |-> NewEval]

\* eval_io_inner starts: the upstream call is issued
IssueCall(e) ==
    eval' = [eval EXCEPT ![e].call = CallsIssued + 1]

\* eval_io, not through the envelope: return eval_io_inner(io, ctx).await
EvalDirect(e) ==
    /\ pc[e] = "start"
    /\ ~UsesEnvelope(e)
    /\ IssueCall(e)
    /\ pc' = [pc EXCEPT ![e] = "inner_direct"]
    /\ UNCHANGED <<env, cache, dedupe_handler>>
    /\ UNCHANGED <<sqlVars, http, grpc, sse, sub, libVars, extVars>>

\* eval_io through the envelope: request_ctx.cache.dedupe(&key, ..) looks the
\* key up
CacheStep(e) ==
    LET r == RequestOf(e)
        k == env.io[e].key
    IN
    /\ pc[e] = "start"
    /\ UsesEnvelope(e)
    /\ CASE cache[r][k].state = "Ready" ->
              /\ eval' = [eval EXCEPT ![e].result = cache[r][k].value,
                                      ![e].consulted = TRUE]
              /\ pc' = [pc EXCEPT ![e] = "done"]
              /\ UNCHANGED cache
         [] cache[r][k].state = "Pending" ->
              /\ eval' = [eval EXCEPT ![e].awaits = cache[r][k].owner,
                                      ![e].consulted = TRUE]
              /\ pc' = [pc EXCEPT ![e] = "cache_wait"]
              /\ UNCHANGED cache
         [] OTHER ->
              /\ cache' = [cache EXCEPT ![r][k] = Pending(e)]
              /\ eval' = [eval EXCEPT ![e].consulted = TRUE]
              /\ pc' = [pc EXCEPT ![e] = "dedupe_step"]
    /\ UNCHANGED <<env, dedupe_handler>>
    /\ UNCHANGED <<sqlVars, http, grpc, sse, sub, libVars, extVars>>

\* request_ctx.dedupe_handler.dedupe(&key, || eval_io_inner(io, ctx)): await
\* the inflight future, or publish a new one and evaluate
DedupeStep(e) ==
    LET sc == Scope(e)
        k == env.io[e].key
    IN
    /\ pc[e] = "dedupe_step"
    /\ IF dedupe_handler[sc][k].state = "Pending"
       THEN /\ eval' = [eval EXCEPT ![e].awaits = dedupe_handler[sc][k].owner]
            /\ pc' = [pc EXCEPT ![e] = "dedupe_wait"]
            /\ UNCHANGED dedupe_handler
       ELSE /\ dedupe_handler' = [dedupe_handler EXCEPT ![sc][k] = Pending(e)]
            /\ IssueCall(e)
            /\ pc' = [pc EXCEPT ![e] = "inner"]
    /\ UNCHANGED <<env, cache>>
    /\ UNCHANGED <<sqlVars, http, grpc, sse, sub, libVars, extVars>>

\* the evaluations parked on the entry an owner published
CacheWaiters(o) == {w \in Evals : pc[w] = "cache_wait" /\ eval[w].awaits = o}
DedupeWaiters(o) == {w \in Evals : pc[w] = "dedupe_wait" /\ eval[w].awaits = o}

\* the owner of a cache entry completes it with v: the entry becomes the
\* request's cached result (or is dropped), the waiters are handed v
CompleteCache(e, v, others) ==
    LET r == RequestOf(e)
        k == env.io[e].key
    IN
    /\ cache' = [cache EXCEPT ![r][k] = IF env.persist THEN Ready(v) ELSE Absent]
    /\ eval' = [w \in Evals |->
                   IF w = e THEN [eval[w] EXCEPT !.result = v]
                   ELSE IF w \in CacheWaiters(e) \cup others
                        THEN [eval[w] EXCEPT !.mail = v]
                   ELSE eval[w]]
    /\ pc' = [pc EXCEPT ![e] = "done"]

\* the upstream answers a direct evaluation
RespondDirect(e) ==
    /\ pc[e] = "inner_direct"
    /\ eval' = [eval EXCEPT ![e].result = eval[e].call]
    /\ pc' = [pc EXCEPT ![e] = "done"]
    /\ UNCHANGED <<env, cache, dedupe_handler>>
    /\ UNCHANGED <<sqlVars, http, grpc, sse, sub, libVars, extVars>>

\* the upstream answers the evaluation that published the inflight future:
\* complete it, remove it, return through the cache entry
Respond(e) ==
    LET sc == Scope(e)
        k == env.io[e].key
        v == eval[e].call
    IN
    /\ pc[e] = "inner"
    /\ dedupe_handler' = [dedupe_handler EXCEPT ![sc][k] = Absent]
    /\ CompleteCache(e, v, DedupeWaiters(e))
    /\ UNCHANGED env
    /\ UNCHANGED <<sqlVars, http, grpc, sse, sub, libVars, extVars>>

\* an evaluation parked on the inflight future receives its value and returns
\* through its own cache entry
DedupeWake(e) ==
    /\ pc[e] = "dedupe_wait"
    /\ eval[e].mail # 0
    /\ CompleteCache(e, eval[e].mail, {})
    /\ UNCHANGED <<env, dedupe_handler>>
    /\ UNCHANGED <<sqlVars, http, grpc, sse, sub, libVars, extVars>>

\* an evaluation parked on a cache entry receives its value
CacheWake(e) ==
    /\ pc[e] = "cache_wait"
    /\ eval[e].mail # 0
    /\ eval' = [eval EXCEPT ![e].result = eval[e].mail]
    /\ pc' = [pc EXCEPT ![e] = "done"]
    /\ UNCHANGED <<env, cache, dedupe_handler>>
    /\ UNCHANGED <<sqlVars, http, grpc, sse, sub, libVars, extVars>>

NextIo ==
    \E e \in Evals :
        \/ EvalDirect(e)
        \/ CacheStep(e)
        \/ DedupeStep(e)
        \/ RespondDirect(e)
        \/ Respond(e)
        \/ DedupeWake(e)
        \/ CacheWake(e)

SpecIo == InitIo /\ [][NextIo]_vars

----------------------------------------------------------------------------
(* Properties of the envelope                                              *)

InEnvelope(e) == pc[e] \in {"cache_wait", "dedupe_step", "dedupe_wait", "inner"}
CallInFlight(e) == pc[e] \in {"inner", "inner_direct"}
DedupedQuery(e) == env.io[e].dedupe /\ env.op[RequestOf(e)] = "Query"
OwnsEntry(e) ==
    \/ \E r \in Requests, k \in IoKeys : cache[r][k].owner = e
    \/ \E sc \in Scopes, k \in IoKeys : dedupe_handler[sc][k].owner = e

\* C4: an evaluation consults or creates a cache / single-flight entry only
\* if its IO has dedupe = true and the operation is a Query; an evaluation in
\* a Mutation leaves both registries untouched and returns the response of
\* an upstream call of its own.
EnvelopeOnlyForDedupedQueries ==
    \A e \in DOMAIN pc :
        /\ (eval[e].consulted \/ InEnvelope(e) \/ OwnsEntry(e)) => DedupedQuery(e)
        /\ env.op[RequestOf(e)] = "Mutation" =>
              /\ \A k \in IoKeys : cache[RequestOf(e)][k] = Absent
              /\ eval[e].awaits = 0
              /\ pc[e] = "done" => (eval[e].call # 0 /\ eval[e].result = eval[e].call)

EnvelopeOnlyForDedupedQueriesWitness ==
    /\ pc # <<>>
    /\ env.op[1] = "Mutation"
    /\ env.io[1] = [dedupe |-> TRUE, key |-> "k1"]
    /\ env.io[2] = [dedupe |-> TRUE, key |-> "k1"]
    /\ pc[1] = "done" /\ pc[2] = "done"
    /\ eval[1].call # 0 /\ eval[2].call # 0 /\ eval[1].result # eval[2].result

SameIo(e1, e2) ==
    /\ RequestOf(e1) = RequestOf(e2)
    /\ env.io[e1].key = env.io[e2].key
    /\ env.io[e1].key # NoKey
    /\ DedupedQuery(e1) /\ DedupedQuery(e2)

\* C5: of the evaluations of one request that have the same IoId (dedupe,
\* Query) at most one has an upstream call in flight; an evaluation that
\* found the IO in flight issues no call and returns what the evaluation it
\* waited for returns, which is the response of an issued call for that
\* IoId; a single-flight entry exists only while its owner's call is in
\* flight.
SingleFlight ==
    /\ \A e1, e2 \in DOMAIN pc :
          (e1 # e2 /\ SameIo(e1, e2)) => ~(CallInFlight(e1) /\ CallInFlight(e2))
    /\ \A e \in DOMAIN pc :
          (pc[e] = "done" /\ eval[e].awaits # 0) =>
              /\ eval[e].call = 0
              /\ pc[eval[e].awaits] = "done"
              /\ eval[e].result = eval[eval[e].awaits].result
    /\ \A e \in DOMAIN pc :
          (pc[e] = "done" /\ DedupedQuery(e) /\ env.io[e].key # NoKey) =>
              \E o \in DOMAIN pc :
                  /\ eval[o].call # 0 /\ eval[o].call = eval[e].result
                  /\ env.io[o].key = env.io[e].key
    /\ \A sc \in DOMAIN dedupe_handler, k \in IoKeys :
          /\ dedupe_handler[sc][k].state # "Ready"
          /\ dedupe_handler[sc][k].state = "Pending" =>
                /\ pc[dedupe_handler[sc][k].owner] = "inner"
                /\ env.io[dedupe_handler[sc][k].owner].key = k

SingleFlightWitness ==
    /\ pc # <<>>
    /\ SameIo(1, 2)
    /\ pc[1] = "done" /\ pc[2] = "done"
    /\ eval[2].awaits = 1
    /\ eval[1].call # 0 /\ eval[2].call = 0
    /\ eval[2].result = eval[1].call
    /\ \A sc \in Scopes : dedupe_handler[sc][env.io[1].key] = Absent

----------------------------------------------------------------------------
(* core/http/request_template/mod.rs: the fingerprint of an HTTP request   *)

\* a Mustache is one literal or one expression over the context
Literal(text) == [kind |-> "Literal", arg |-> text]
Expression(path) == [kind |-> "Expression", arg |-> path]

\* Mustache::render: the literal, or the value the context has for the path
MustacheRender(m, c) == IF m.kind = "Literal" THEN m.arg ELSE c.vars[m.arg]

Header(n, v) == [name |-> n, value |-> v]

\* HeaderValue::from_str rejects control characters
ValidHeaderValue(text) == text # "bad\n"

\* Url::parse
ValidUrl(text) == text = "http://u/"

\* the hasher's result identifies the sequence of items written to it
HasherFinish(written) == written

HttpMethods == {"GET", "POST"}
HttpHeaderTemplates ==
    {<<>>,
     <<Header("authorization", Expression("token"))>>,
     <<Header("x-api", Literal("1"))>>}
NoBody == [kind |-> "None", arg |-> ""]
HttpBodies == {NoBody, Expression("body")}
HttpUrls == {Literal("http://u/"), Expression("url")}

HttpTemplates ==
    [method : HttpMethods, headers : HttpHeaderTemplates, body_path : HttpBodies,
     root_url : HttpUrls, encoding : {"ApplicationJson"}]

\* ctx.headers(): the request headers the context forwards upstream
CtxHeaderMaps ==
    {<<>>,
     <<Header("authorization", "abc")>>,
     <<Header("authorization", "bcd")>>,
     <<Header("range", "bytes=0-")>>,
     <<Header("content-type", "text/plain")>>,
     <<Header("authorization", "abc"), Header("range", "bytes=0-")>>}

HttpContexts ==
    [headers : CtxHeaderMaps,
     vars : [token : {"abc", "bcd", "bad\n"}, body : {"b1"}, url : {"http://u/", ""}]]

\* create_url, for a template without query parameters
create_url(t, c) ==
    LET text == MustacheRender(t.root_url, c)
    IN IF ValidUrl(text) THEN [ok |-> TRUE, url |-> text] ELSE [ok |-> FALSE, url |-> ""]

\* HeaderMap::insert: one value per name
InsertHeader(map, n, v) == {h \in map : h.name # n} \cup {Header(n, v)}

RECURSIVE InsertAll(_, _)
InsertAll(map, hs) ==
    IF hs = <<>> THEN map
    ELSE InsertAll(InsertHeader(map, Head(hs).name, Head(hs).value), Tail(hs))

\* create_headers: the template's headers whose rendered value is valid
create_headers(t, c) ==
    LET renderedHs == [i \in 1..Len(t.headers) |->
                          Header(t.headers[i].name, MustacheRender(t.headers[i].value, c))]
        IsValid(h) == ValidHeaderValue(h.value)
    IN InsertAll({}, SelectSeq(renderedHs, IsValid))

\* set_headers: template headers, Content-Type for non-GET, then ctx.headers()
set_headers(t, c) ==
    LET own == create_headers(t, c)
        typed == IF t.method # "GET"
                 THEN InsertHeader(own, "content-type", "application/json") ELSE own
    IN InsertAll(typed, c.headers)

NoRequest == [ok |-> FALSE, method |-> "", url |-> "", headers |-> {}, body |-> ""]

\* to_request
to_request(t, c) ==
    LET u == create_url(t, c) IN
    IF ~u.ok THEN NoRequest
    ELSE [ok |-> TRUE, method |-> t.method, url |-> u.url,
          headers |-> set_headers(t, c),
          body |-> IF t.body_path = NoBody THEN ""
                   ELSE MustacheRender(t.body_path, c)]

NoIoId == <<>>

\* cache_key without the headers of the context
cache_key_without_ctx_headers(t, c) ==
    LET own == Flatten([i \in 1..Len(t.headers) |->
                           <<t.headers[i].name, MustacheRender(t.headers[i].value, c)>>])
        body == IF t.body_path = NoBody THEN <<>>
                ELSE <<MustacheRender(t.body_path, c)>>
        u == create_url(t, c)
    IN IF ~u.ok THEN NoIoId
       ELSE HasherFinish(<<t.method>> \o own \o body \o <<u.url>>)

\* CacheKey::cache_key: None, or the IoId of what was hashed, in order: the
\* method, each template header (name, rendered value), each header of the
\* context (name, value), the rendered body, the url
cache_key(t, c) ==
    LET own == Flatten([i \in 1..Len(t.headers) |->
                           <<t.headers[i].name, MustacheRender(t.headers[i].value, c)>>])
        fromCtx == Flatten([i \in 1..Len(c.headers) |->
                               <<c.headers[i].name, c.headers[i].value>>])
        body == IF t.body_path = NoBody THEN <<>>
                ELSE <<MustacheRender(t.body_path, c)>>
        u == create_url(t, c)
    IN IF ~u.ok THEN NoIoId
       ELSE HasherFinish(<<t.method>> \o own \o fromCtx \o body \o <<u.url>>)

Users == {1, 2}
NotKeyed == [done |-> FALSE, key |-> NoIoId, req |-> NoRequest]

InitHttp ==
    /\ SqlIdle /\ IoIdle /\ LibIdle /\ ExtIdle
    /\ grpc = <<>> /\ sse = <<>> /\ sub = <<>>
    /\ \E t \in HttpTemplates, c \in [Users -> HttpContexts] :
          http = [tmpl |-> t, ctx |-> c, out |-> [u \in Users |-> NotKeyed]]

\* one user's evaluation of the IO: its IoId and the request it sends
KeyAndRequest(u) ==
    /\ ~http.out[u].done
    /\ http' = [http EXCEPT !.out[u] =
                   [done |-> TRUE,
                    key |-> cache_key(http.tmpl, http.ctx[u]),
                    req |-> to_request(http.tmpl, http.ctx[u])]]
    /\ UNCHANGED <<sqlVars, ioVars, grpc, sse, sub, libVars, extVars>>

NextHttp == \E u \in Users : KeyAndRequest(u)

SpecHttp == InitHttp /\ [][NextHttp]_vars

\* C6: two requests rendered from one template whose headers differ do not
\* get the same IoId.
HeadersSeparateIoIds ==
    \A u1, u2 \in DOMAIN http.out :
        (/\ http.out[u1].done /\ http.out[u2].done
         /\ http.out[u1].req.ok /\ http.out[u2].req.ok
         /\ http.out[u1].req.headers # http.out[u2].req.headers)
        => /\ http.out[u1].key # NoIoId
           /\ http.out[u2].key # NoIoId
           /\ http.out[u1].key # http.out[u2].key

HeadersSeparateIoIdsWitness ==
    /\ http # <<>>
    /\ http.out[1].done /\ http.out[2].done
    /\ http.tmpl.headers = <<>>
    /\ http.ctx[1].vars = http.ctx[2].vars
    /\ Header("authorization", "abc") \in http.out[1].req.headers
    /\ Header("authorization", "bcd") \in http.out[2].req.headers
    /\ http.out[1].key # http.out[2].key

----------------------------------------------------------------------------
(* core/grpc/stream.rs: GrpcFrameDecoder                                   *)

MaxFrames == 2    \* frames in the byte stream

\* u32::from_be_bytes
U32FromBe(b1, b2, b3, b4) == ((b1 * 256 + b2) * 256 + b3) * 256 + b4

\* u32::to_be_bytes
U32ToBe(n) == <<(n \div 16777216) % 256, (n \div 65536) % 256, (n \div 256) % 256, n % 256>>

\* the decode loop taking a frame only when more than the frame is buffered
ExtractFramesStrict(buffer) ==
    LET RECURSIVE Go(_, _)
        Go(buf, frames) ==
            IF Len(buf) < 5 THEN [frames |-> frames, buffer |-> buf]
            ELSE LET msg_len == U32FromBe(buf[2], buf[3], buf[4], buf[5])
                     frame_len == 5 + msg_len
                 IN IF Len(buf) <= frame_len THEN [frames |-> frames, buffer |-> buf]
                    ELSE Go(SubSeq(buf, frame_len + 1, Len(buf)),
                            Append(frames, SubSeq(buf, 6, frame_len)))
    IN Go(buffer, <<>>)

\* the decode loop leaving after the first frame it takes
ExtractFramesOnce(buffer) ==
    IF Len(buffer) < 5 THEN [frames |-> <<>>, buffer |-> buffer]
    ELSE LET msg_len == U32FromBe(buffer[2], buffer[3], buffer[4], buffer[5])
             frame_len == 5 + msg_len
         IN IF Len(buffer) < frame_len THEN [frames |-> <<>>, buffer |-> buffer]
            ELSE [frames |-> <<SubSeq(buffer, 6, frame_len)>>,
                  buffer |-> SubSeq(buffer, frame_len + 1, Len(buffer))]

\* the loop of decode: take complete frames off the front of the buffer
ExtractFrames(buffer) ==
    LET RECURSIVE Go(_, _)
        Go(buf, frames) ==
            IF Len(buf) < 5 THEN [frames |-> frames, buffer |-> buf]
            ELSE LET msg_len == U32FromBe(buf[2], buf[3], buf[4], buf[5])
                     frame_len == 5 + msg_len
                 IN IF Len(buf) < frame_len THEN [frames |-> frames, buffer |-> buf]
                    ELSE Go(SubSeq(buf, frame_len + 1, Len(buf)),
                            Append(frames, SubSeq(buf, 6, frame_len)))
    IN Go(buffer, <<>>)

\* GrpcFrameDecoder::decode(chunk): the frames returned and the buffer kept
GrpcDecode(buffer, chunk) == ExtractFrames(buffer \o chunk)

\* a frame on the wire: flag, big-endian length, payload
make_frame(flag, payload) == <<flag>> \o U32ToBe(Len(payload)) \o payload

GrpcPayloads == {<<>>, <<7>>, <<1, 0>>, <<0, 0, 0, 0, 0>>}
GrpcFrames == [flag : {0, 1}, payload : GrpcPayloads]

RECURSIVE FrameSeqs(_)
FrameSeqs(n) ==
    IF n = 0 THEN {<<>>}
    ELSE {Append(fs, f) : fs \in FrameSeqs(n - 1), f \in GrpcFrames}

WireBytes(fs) == Flatten([i \in 1..Len(fs) |-> make_frame(fs[i].flag, fs[i].payload)])

InitGrpc ==
    /\ SqlIdle /\ IoIdle /\ LibIdle /\ ExtIdle
    /\ http = <<>> /\ sse = <<>> /\ sub = <<>>
    /\ \E fs \in UNION {FrameSeqs(n) : n \in 0..MaxFrames} :
          grpc = [frames |-> fs, wire |-> WireBytes(fs), fed |-> 0, chunks |-> 0,
                  buffer |-> <<>>, out |-> <<>>]

\* the next n bytes of the wire arrive as one chunk and are decoded
GrpcFeed(n) ==
    LET chunk == SubSeq(grpc.wire, grpc.fed + 1, grpc.fed + n)
        d == GrpcDecode(grpc.buffer, chunk)
    IN
    /\ grpc.fed + n <= Len(grpc.wire)
    /\ grpc' = [grpc EXCEPT !.fed = grpc.fed + n,
                            !.chunks = IF n > 0 THEN grpc.chunks + 1 ELSE grpc.chunks,
                            !.buffer = d.buffer,
                            !.out = grpc.out \o d.frames]
    /\ UNCHANGED <<sqlVars, ioVars, http, sse, sub, libVars, extVars>>

NextGrpc == \E n \in 0..(5 + 5) * (MaxFrames + 1) : GrpcFeed(n)

SpecGrpc == InitGrpc /\ [][NextGrpc]_vars

\* wire offset at which frame i ends
FrameEnd(fs, i) == Len(WireBytes(SubSeq(fs, 1, i)))

\* C7: however the wire bytes are cut into chunks, the payloads returned so
\* far are exactly the payloads of the frames that have completely arrived,
\* in order; once every byte is fed they are all the original payloads.
GrpcFramesRoundTrip ==
    grpc # <<>> =>
        LET arrived == {i \in 1..Len(grpc.frames) : FrameEnd(grpc.frames, i) <= grpc.fed}
        IN /\ grpc.out = [i \in 1..Cardinality(arrived) |-> grpc.frames[i].payload]
           /\ grpc.fed = Len(grpc.wire) =>
                 grpc.out = [i \in 1..Len(grpc.frames) |-> grpc.frames[i].payload]

GrpcFramesRoundTripWitness ==
    /\ grpc # <<>>
    /\ Len(grpc.frames) = 2
    /\ grpc.frames[1].payload = <<>> /\ grpc.frames[2].payload = <<0, 0, 0, 0, 0>>
    /\ grpc.fed = Len(grpc.wire)
    /\ grpc.chunks >= 3
    /\ grpc.buffer = <<>>
    /\ grpc.out = <<<<>>, <<0, 0, 0, 0, 0>>>>

----------------------------------------------------------------------------
(* core/graphql/sse_client.rs: SseEventParser                              *)

MaxEvents == 2        \* event blocks in the byte stream
MaxEventLines == 2    \* lines of one event block

NL == "\n"
NoPos == -1

\* find_double_newline: 0-based position of the first "\n\n"
find_double_newline(buf) ==
    LET hits == {i \in 1..(Len(buf) - 1) : buf[i] = NL /\ buf[i + 1] = NL}
    IN IF hits = {} THEN NoPos
       ELSE (CHOOSE i \in hits : \A j \in hits : i <= j) - 1

\* str::lines: split at "\n"; a final empty piece is not a line
Lines(block) ==
    LET pieces == SplitOn(block, NL)
    IN IF pieces[Len(pieces)] = <<>> THEN SubSeq(pieces, 1, Len(pieces) - 1)
       ELSE pieces

\* str::strip_prefix: the rest wrapped in a sequence, or <<>> for None
StripPrefix(line, prefix) ==
    IF Len(line) >= Len(prefix) /\ SubSeq(line, 1, Len(prefix)) = prefix
    THEN <<SubSeq(line, Len(prefix) + 1, Len(line))>>
    ELSE <<>>

\* the part one line contributes in extract_data_lines
DataPart(line) ==
    LET colon == StripPrefix(line, <<"d", "a", "t", "a", ":">>)
        bare == StripPrefix(line, <<"d", "a", "t", "a">>)
    IN IF colon # <<>> THEN <<TrimStart(colon[1])>>
       ELSE IF bare # <<>> /\ bare[1] = <<>> THEN <<<<>>>>
       ELSE <<>>

\* extract_data_lines
extract_data_lines(block) ==
    LET ls == Lines(block)
        parts == Flatten([i \in 1..Len(ls) |-> DataPart(ls[i])])
    IN JoinWith(parts, <<NL>>)

\* SseEventParser::decode(chunk): the payloads returned and the buffer kept
SseDecode(buffer, chunk) ==
    LET RECURSIVE Go(_, _)
        Go(buf, events) ==
            LET pos == find_double_newline(buf) IN
            IF pos = NoPos THEN [events |-> events, buffer |-> buf]
            ELSE LET data == extract_data_lines(SubSeq(buf, 1, pos))
                 IN Go(SubSeq(buf, pos + 3, Len(buf)),
                       IF data # <<>> THEN Append(events, data) ELSE events)
    IN Go(buffer \o chunk, <<>>)

\* a line of an event block: its bytes, whether it is a data line, its value
SseLine(bytes, isData, value) == [bytes |-> bytes, isData |-> isData, value |-> value]

SseLines ==
    {SseLine(<<"d", "a", "t", "a", ":", " ", "x">>, TRUE, <<"x">>),
     SseLine(<<"d", "a", "t", "a", ":">>, TRUE, <<>>),
     SseLine(<<"i", "d", ":", "1">>, FALSE, <<>>)}

RECURSIVE SseLineSeqs(_)
SseLineSeqs(n) ==
    IF n = 0 THEN {<<>>}
    ELSE {Append(ls, l) : ls \in SseLineSeqs(n - 1), l \in SseLines}

\* an event block has at least one line
SseEvents == UNION {SseLineSeqs(n) : n \in 1..MaxEventLines}

RECURSIVE SseEventSeqs(_)
SseEventSeqs(n) ==
    IF n = 0 THEN {<<>>}
    ELSE {Append(es, e) : es \in SseEventSeqs(n - 1), e \in SseEvents}

\* the bytes of one event: each line ended by "\n", then the blank line
EventBytes(e) == Flatten([i \in 1..Len(e) |-> e[i].bytes \o <<NL>>]) \o <<NL>>

SseWire(es) == Flatten([i \in 1..Len(es) |-> EventBytes(es[i])])

InitSse ==
    /\ SqlIdle /\ IoIdle /\ LibIdle /\ ExtIdle
    /\ http = <<>> /\ grpc = <<>> /\ sub = <<>>
    /\ \E es \in UNION {SseEventSeqs(n) : n \in 0..MaxEvents} :
          sse = [events |-> es, wire |-> SseWire(es), fed |-> 0, split |-> FALSE,
                 buffer |-> <<>>, out |-> <<>>]

\* the next n bytes of the stream arrive as one chunk and are decoded
SseFeed(n) ==
    LET chunk == SubSeq(sse.wire, sse.fed + 1, sse.fed + n)
        d == SseDecode(sse.buffer, chunk)
    IN
    /\ sse.fed + n <= Len(sse.wire)
    /\ sse' = [sse EXCEPT !.fed = sse.fed + n,
                          !.split = sse.split \/ (n > 0 /\ d.buffer # <<>>),
                          !.buffer = d.buffer,
                          !.out = sse.out \o d.events]
    /\ UNCHANGED <<sqlVars, ioVars, http, grpc, sub, libVars, extVars>>

NextSse == \E n \in 0..(MaxEvents + 1) * ((MaxEventLines + 1) * 8 + 1) : SseFeed(n)

SpecSse == InitSse /\ [][NextSse]_vars

\* the data lines of an event, and their values joined by a newline
HasDataLine(e) == \E i \in 1..Len(e) : e[i].isData
EventData(e) ==
    JoinWith(Flatten([i \in 1..Len(e) |-> IF e[i].isData THEN <<e[i].value>> ELSE <<>>]),
             <<NL>>)

\* the events of the stream: the blocks that carry at least one data line
DataEvents(es) == SelectSeq(es, HasDataLine)

\* C8: once all bytes of a stream of complete events are fed, in whatever
\* chunks, the parser has returned one payload per event that carries a data
\* line, in order, each the event's data values joined by a newline.
SseOnePayloadPerEvent ==
    (sse # <<>> /\ sse.fed = Len(sse.wire)) =>
        LET evs == DataEvents(sse.events)
        IN sse.out = [i \in 1..Len(evs) |-> EventData(evs[i])]

----------------------------------------------------------------------------
(* core/http/streaming.rs, core/graphql/streaming.rs, core/http/sse.rs:    *)
(* an upstream SSE stream turned into result items and downstream frames   *)

MaxSteps == 3    \* deliveries of the upstream (an event, a pair, an error)

DocOk == "{\"data\":{\"f\":1}}"
DocErrors == "{\"errors\":[{\"message\":\"m\"}]}"
DocBad == "{oops"
FieldName == "f"

\* serde_json::from_str succeeds on a payload that is one JSON document
IsJson(payload) == payload \in {<<DocOk>>, <<DocErrors>>}

OkItem(value) == [ok |-> TRUE, value |-> value, err |-> ""]
ErrItem(e) == [ok |-> FALSE, value |-> <<>>, err |-> e]

\* parse_sse_raw_json
parse_sse_raw_json(event_data) ==
    IF ~IsJson(event_data) THEN ErrItem("Failed to parse SSE event as JSON")
    ELSE OkItem(event_data)

\* parse_sse_graphql_event
parse_sse_graphql_event(event_data, field_name) ==
    IF ~IsJson(event_data) THEN ErrItem("Failed to parse SSE event as JSON")
    ELSE IF event_data = <<DocErrors>> THEN ErrItem("GraphQL subscription error: m")
    ELSE IF field_name # "f" THEN ErrItem("SSE event missing field")
    ELSE OkItem(<<"1">>)

ParseEvent(kind, event_data) ==
    IF kind = "http" THEN parse_sse_raw_json(event_data)
    ELSE parse_sse_graphql_event(event_data, FieldName)

\* the GraphQL response of one item of the subscription stream
SubResponse(item) ==
    IF item.ok THEN <<"{\"data\":{\"", FieldName, "\":">> \o item.value \o <<"}}">>
    ELSE <<"{\"errors\":[{\"message\":\"", item.err, "\"}]}">>

\* handle_sse_request: format!("data: {json}\n\n")
SseFrame(json) == <<"data: ">> \o json \o <<NL, NL>>

\* upstream events by payload: a document with the field, a document that is
\* not JSON, a data line with nothing after the colon, a GraphQL error document
SubEventKinds == {"ok", "bad", "empty", "errors"}

PayloadOf(k) ==
    CASE k = "ok" -> <<DocOk>>
      [] k = "bad" -> <<DocBad>>
      [] k = "empty" -> <<>>
      [] k = "errors" -> <<DocErrors>>

SubEventBytes(k) ==
    <<"d", "a", "t", "a", ":">>
        \o (IF PayloadOf(k) = <<>> THEN <<>> ELSE <<" ">> \o PayloadOf(k))
        \o <<NL, NL>>

Chunk(bytes) == [err |-> FALSE, bytes |-> bytes]
TransportError == [err |-> TRUE, bytes |-> <<>>]

\* one delivery: the chunks the byte stream yields and the events they carry
Whole(k) == [chunks |-> <<Chunk(SubEventBytes(k))>>, events |-> <<k>>]
SplitStep ==
    LET b == SubEventBytes("ok")
    IN [chunks |-> <<Chunk(SubSeq(b, 1, Len(b) - 1)), Chunk(<<NL>>)>>, events |-> <<"ok">>]
PairStep ==
    [chunks |-> <<Chunk(SubEventBytes("bad") \o SubEventBytes("ok"))>>,
     events |-> <<"bad", "ok">>]
ErrStep == [chunks |-> <<TransportError>>, events |-> <<"transport">>]

SubSteps == {Whole(k) : k \in SubEventKinds} \cup {SplitStep, PairStep, ErrStep}

RECURSIVE SubStepSeqs(_)
SubStepSeqs(n) ==
    IF n = 0 THEN {<<>>}
    ELSE {Append(ss, st) : ss \in SubStepSeqs(n - 1), st \in SubSteps}

InitSub ==
    /\ SqlIdle /\ IoIdle /\ LibIdle /\ ExtIdle
    /\ http = <<>> /\ grpc = <<>> /\ sse = <<>>
    /\ \E kind \in {"http", "graphql"},
          ss \in UNION {SubStepSeqs(n) : n \in 0..MaxSteps} :
          sub = [kind |-> kind,
                 upstream |-> Flatten([i \in 1..Len(ss) |-> ss[i].chunks]),
                 events |-> Flatten([i \in 1..Len(ss) |-> ss[i].events]),
                 next |-> 1, buffer |-> <<>>, pending |-> <<>>, items |-> <<>>,
                 broke |-> FALSE, ended |-> FALSE, down |-> <<>>, closed |-> FALSE]

\* the stream is polled only once its previous item has been written downstream
Polled == Len(sub.down) = Len(sub.items) /\ ~sub.ended

\* byte_stream.next() has a chunk or an error to return
CanRecv ==
    /\ Polled /\ ~sub.broke /\ sub.pending = <<>>
    /\ sub.next <= Len(sub.upstream)

CanYield == Polled /\ sub.pending # <<>>

CanEnd ==
    /\ Polled /\ sub.pending = <<>>
    /\ sub.broke \/ sub.next > Len(sub.upstream)

CanForward == Len(sub.down) < Len(sub.items)

CanClose == sub.ended /\ Len(sub.down) = Len(sub.items) /\ ~sub.closed

\* Ok(chunk): parser.decode(chunk), the events are then yielded one by one
SubRecvChunk ==
    /\ CanRecv
    /\ ~sub.upstream[sub.next].err
    /\ LET d == SseDecode(sub.buffer, sub.upstream[sub.next].bytes)
       IN sub' = [sub EXCEPT !.next = sub.next + 1, !.buffer = d.buffer,
                             !.pending = d.events]
    /\ UNCHANGED <<sqlVars, ioVars, http, grpc, sse, libVars, extVars>>

\* Err(e): yield Err(..); break
SubRecvError ==
    /\ CanRecv
    /\ sub.upstream[sub.next].err
    /\ sub' = [sub EXCEPT !.next = sub.next + 1, !.broke = TRUE,
                          !.items = Append(sub.items, ErrItem("SSE stream error"))]
    /\ UNCHANGED <<sqlVars, ioVars, http, grpc, sse, libVars, extVars>>

\* for event_data in events: yield the parsed event
SubYield ==
    /\ CanYield
    /\ sub' = [sub EXCEPT !.pending = Tail(sub.pending),
                          !.items = Append(sub.items, ParseEvent(sub.kind, Head(sub.pending)))]
    /\ UNCHANGED <<sqlVars, ioVars, http, grpc, sse, libVars, extVars>>

\* the while loop ends: the byte stream returned None, or break was taken
SubEnd ==
    /\ CanEnd
    /\ sub' = [sub EXCEPT !.ended = TRUE]
    /\ UNCHANGED <<sqlVars, ioVars, http, grpc, sse, libVars, extVars>>

\* handle_sse_request: the next response becomes one SSE frame
SubForward ==
    /\ CanForward
    /\ sub' = [sub EXCEPT !.down =
                  Append(sub.down, SseFrame(SubResponse(sub.items[Len(sub.down) + 1])))]
    /\ UNCHANGED <<sqlVars, ioVars, http, grpc, sse, libVars, extVars>>

\* the response stream is exhausted: the body ends
SubClose ==
    /\ CanClose
    /\ sub' = [sub EXCEPT !.closed = TRUE]
    /\ UNCHANGED <<sqlVars, ioVars, http, grpc, sse, libVars, extVars>>

NextSub ==
    \/ SubRecvChunk
    \/ SubRecvError
    \/ SubYield
    \/ SubEnd
    \/ SubForward
    \/ SubClose

SpecSub == InitSub /\ [][NextSub]_vars

IsPrefix(s, t) == Len(s) <= Len(t) /\ s = SubSeq(t, 1, Len(s))

\* whether the payload of an upstream event is a well-formed result
WellFormed(kind, k) == k = "ok" \/ (kind = "http" /\ k = "errors")

\* the upstream events up to and including the first transport failure
RECURSIVE UntilFailure(_)
UntilFailure(evs) ==
    IF evs = <<>> THEN <<>>
    ELSE IF Head(evs) = "transport" THEN <<"transport">>
    ELSE <<Head(evs)>> \o UntilFailure(Tail(evs))

\* per upstream event, whether its item is a value (TRUE) or an error (FALSE)
ExpectedOutcomes(kind, evs) ==
    LET u == UntilFailure(evs)
    IN [i \in 1..Len(u) |-> u[i] # "transport" /\ WellFormed(kind, u[i])]

Outcomes(items) == [i \in 1..Len(items) |-> items[i].ok]

\* C9: every upstream event before a transport failure produces exactly one
\* item (a value, or one error if its payload is malformed) and the stream
\* goes on; a transport failure produces one error item and nothing after it.
MalformedContinuesTransportEnds ==
    sub # <<>> =>
        /\ IsPrefix(Outcomes(sub.items), ExpectedOutcomes(sub.kind, sub.events))
        /\ sub.ended => Outcomes(sub.items) = ExpectedOutcomes(sub.kind, sub.events)
        /\ sub.broke => ~sub.items[Len(sub.items)].ok

\* the item an upstream event stands for
ExpectedItem(kind, k) ==
    IF k = "transport" THEN ErrItem("SSE stream error")
    ELSE IF ~WellFormed(kind, k)
         THEN ErrItem(IF k = "errors" THEN "GraphQL subscription error: m"
                      ELSE "Failed to parse SSE event as JSON")
    ELSE OkItem(IF kind = "http" THEN PayloadOf(k) ELSE <<"1">>)

ExpectedFrames(kind, evs) ==
    LET u == UntilFailure(evs)
    IN [i \in 1..Len(u) |-> SseFrame(SubResponse(ExpectedItem(kind, u[i])))]

\* C10: the downstream frames are, in order, one frame per upstream event
\* carrying that event's GraphQL response, and once the upstream has closed
\* the downstream stream ends with exactly those frames.
OneFramePerUpstreamEvent ==
    sub # <<>> =>
        /\ IsPrefix(sub.down, ExpectedFrames(sub.kind, sub.events))
        /\ sub.closed => sub.down = ExpectedFrames(sub.kind, sub.events)
        /\ ~(CanRecv \/ CanYield \/ CanEnd \/ CanForward \/ CanClose) => sub.closed

----------------------------------------------------------------------------
(* core/auth/verification.rs: Verification::and and merge_claims           *)

MaxClaimKeys == 2    \* keys a claims object may have

ClaimKeys == 1..MaxClaimKeys
ClaimValues == {"a", "b"}

\* Option<serde_json::Value>: None, a JSON object (key -> value), or a JSON
\* value that is not an object
NoClaims == [kind |-> "None", map |-> <<>>]
ObjectClaims(m) == [kind |-> "Object", map |-> m]
ScalarClaims == [kind |-> "Scalar", map |-> <<>>]

ClaimMaps == UNION {[ks -> ClaimValues] : ks \in SUBSET ClaimKeys}
ClaimsOptions == {NoClaims, ScalarClaims} \cup {ObjectClaims(m) : m \in ClaimMaps}

Succeed(claims) == [kind |-> "Succeed", claims |-> claims, error |-> ""]
VerificationFail(e) == [kind |-> "Fail", claims |-> NoClaims, error |-> e]

Verifications ==
    {Succeed(c) : c \in ClaimsOptions} \cup {VerificationFail(e) : e \in {"Missing", "Invalid"}}

\* serde_json::Map::insert for every entry of r: an existing key is overwritten
InsertAllClaims(l, r) ==
    [k \in DOMAIN l \cup DOMAIN r |-> IF k \in DOMAIN r THEN r[k] ELSE l[k]]

\* merge_claims
merge_claims(left, right) ==
    IF left.kind = "Object" /\ right.kind = "Object"
    THEN ObjectClaims(InsertAllClaims(left.map, right.map))
    ELSE IF right.kind = "None" THEN left
    ELSE IF left.kind = "None" THEN right
    ELSE left

\* Verification::and
VerificationAnd(self, other) ==
    IF self.kind = "Succeed"
    THEN IF other.kind = "Succeed"
         THEN Succeed(merge_claims(self.claims, other.claims))
         ELSE other
    ELSE self

NotVerified == VerificationFail("NotVerified")

InitAuth ==
    /\ SqlIdle /\ IoIdle /\ CodecsIdle
    /\ access = <<>> /\ schema = <<>> /\ loader = <<>> /\ rope = <<>> /\ ExtIdle
    /\ \E l, r \in Verifications :
          auth = [left |-> l, right |-> r, done |-> FALSE, result |-> NotVerified]

\* left.and(right)
AuthAnd ==
    /\ ~auth.done
    /\ auth' = [auth EXCEPT !.done = TRUE,
                            !.result = VerificationAnd(auth.left, auth.right)]
    /\ UNCHANGED <<sqlVars, ioVars, http, grpc, sse, sub, access, schema, loader, rope, extVars>>

NextAuth == AuthAnd

SpecAuth == InitAuth /\ [][NextAuth]_vars

BothObjects ==
    /\ auth.left.kind = "Succeed" /\ auth.left.claims.kind = "Object"
    /\ auth.right.kind = "Succeed" /\ auth.right.claims.kind = "Object"

\* C11: when both sides of and succeed with claims objects, the result
\* succeeds with an object whose keys are the union of both key sets, and a
\* key present on both sides carries the value of the left side.
AndMergesPreferLeft ==
    (auth # <<>> /\ auth.done /\ BothObjects) =>
        LET l == auth.left.claims.map
            r == auth.right.claims.map
        IN /\ auth.result.kind = "Succeed"
           /\ auth.result.claims.kind = "Object"
           /\ DOMAIN auth.result.claims.map = DOMAIN l \cup DOMAIN r
           /\ \A k \in DOMAIN l \cup DOMAIN r :
                 auth.result.claims.map[k] = IF k \in DOMAIN l THEN l[k] ELSE r[k]

----------------------------------------------------------------------------
(* core/ir/access_expr.rs: AccessExpr::evaluate and resolve_operand        *)

\* serde_json::Value, the scalar text kept apart from the JSON type
JBool(b) == [type |-> "bool", val |-> b, fields |-> <<>>]
JStr(t) == [type |-> "string", val |-> t, fields |-> <<>>]
JInt(n) == [type |-> "number", val |-> n, fields |-> <<>>]
JNull == [type |-> "null", val |-> "", fields |-> <<>>]
JObj(fs) == [type |-> "object", val |-> "", fields |-> fs]

\* Option<T>: Some(v) is <<v>>, None is <<>>
Some(v) == <<v>>
None == <<>>

\* Operand
Path(segments) == [kind |-> "Path", segments |-> segments, lit |-> ""]
StringLiteral(t) == [kind |-> "StringLiteral", segments |-> <<>>, lit |-> t]
NumberLiteral(n) == [kind |-> "NumberLiteral", segments |-> <<>>, lit |-> n]
BoolLiteral(b) == [kind |-> "BoolLiteral", segments |-> <<>>, lit |-> b]

\* AccessExpr
Eq(l, r) == [op |-> "Eq", left |-> l, right |-> r]
Neq(l, r) == [op |-> "Neq", left |-> l, right |-> r]
Not(e) == [op |-> "Not", left |-> e, right |-> e]
And(l, r) == [op |-> "And", left |-> l, right |-> r]
Or(l, r) == [op |-> "Or", left |-> l, right |-> r]

\* serde_json::Value::get(&str): a member of an object, None on anything else
JsonGet(v, segment) ==
    IF v.type = "object" /\ segment \in DOMAIN v.fields THEN Some(v.fields[segment])
    ELSE None

\* the loop over segments[1..] with the ? operator
RECURSIVE Descend(_, _)
Descend(current, segments) ==
    IF segments = <<>> THEN Some(current)
    ELSE LET next == JsonGet(current, Head(segments))
         IN IF next = None THEN None ELSE Descend(next[1], Tail(segments))

\* ctx.path_string(segments): the string the context has for the path, if any
PathString(c, segments) == c.strings[segments]

\* resolve_operand with every path read as a string
resolve_operand_coerced(operand, c) ==
    IF operand.kind = "Path"
    THEN IF Head(operand.segments) = "claims" /\ Len(operand.segments) > 1
         THEN IF c.auth_claims = None THEN None
              ELSE LET v == Descend(c.auth_claims[1], Tail(operand.segments))
                   IN IF v = None THEN None ELSE Some(JStr(v[1].val))
         ELSE IF PathString(c, operand.segments) = None THEN None
              ELSE Some(JStr(PathString(c, operand.segments)[1]))
    ELSE Some(JStr(operand.lit))

\* resolve_operand with a missing path read as the empty string
resolve_operand_defaulting(operand, c) ==
    IF operand.kind = "Path"
    THEN IF Head(operand.segments) = "claims" /\ Len(operand.segments) > 1
         THEN IF c.auth_claims = None THEN Some(JStr(""))
              ELSE LET v == Descend(c.auth_claims[1], Tail(operand.segments))
                   IN IF v = None THEN Some(JStr("")) ELSE v
         ELSE IF PathString(c, operand.segments) = None THEN Some(JStr(""))
              ELSE Some(JStr(PathString(c, operand.segments)[1]))
    ELSE IF operand.kind = "StringLiteral" THEN Some(JStr(operand.lit))
    ELSE IF operand.kind = "NumberLiteral" THEN Some(JInt(operand.lit))
    ELSE Some(JBool(operand.lit))

\* resolve_operand
resolve_operand(operand, c) ==
    IF operand.kind = "Path"
    THEN IF Head(operand.segments) = "claims" /\ Len(operand.segments) > 1
         THEN IF c.auth_claims = None THEN None
              ELSE Descend(c.auth_claims[1], Tail(operand.segments))
         ELSE IF PathString(c, operand.segments) = None THEN None
              ELSE Some(JStr(PathString(c, operand.segments)[1]))
    ELSE IF operand.kind = "StringLiteral" THEN Some(JStr(operand.lit))
    ELSE IF operand.kind = "NumberLiteral" THEN Some(JInt(operand.lit))
    ELSE Some(JBool(operand.lit))

\* AccessExpr::evaluate (it never returns Err)
RECURSIVE evaluate(_, _)
evaluate(e, c) ==
    CASE e.op = "And" -> evaluate(e.left, c) /\ evaluate(e.right, c)
      [] e.op = "Or" -> evaluate(e.left, c) \/ evaluate(e.right, c)
      [] e.op = "Not" -> ~evaluate(e.left, c)
      [] e.op = "Eq" -> resolve_operand(e.left, c) = resolve_operand(e.right, c)
      [] e.op = "Neq" -> resolve_operand(e.left, c) # resolve_operand(e.right, c)

ClaimPaths == {<<"claims", "active">>, <<"claims", "nested", "x">>, <<"claims", "missing">>}
OtherPaths == {<<"args", "id">>, <<"claims">>}
Literals ==
    {StringLiteral("true"), StringLiteral("42"), BoolLiteral("true"), BoolLiteral("false"),
     NumberLiteral("42"), NumberLiteral("7")}
Operands == {Path(p) : p \in ClaimPaths \cup OtherPaths} \cup Literals

Comparisons == {Eq(l, r) : l, r \in Operands} \cup {Neq(l, r) : l, r \in Operands}
SampleComparisons ==
    {Eq(Path(<<"claims", "active">>), BoolLiteral("true")),
     Neq(Path(<<"claims", "missing">>), StringLiteral("true")),
     Eq(Path(<<"args", "id">>), StringLiteral("42"))}
AccessExprs ==
    Comparisons
        \cup {Not(a) : a \in SampleComparisons}
        \cup {And(a, b) : a, b \in SampleComparisons}
        \cup {Or(a, b) : a, b \in SampleComparisons}

ActiveValues == {JBool("true"), JStr("true"), JInt("42"), JStr("42"), JNull}
NestedValues ==
    {JObj([x \in {"x"} |-> JBool("true")]), JObj([x \in {"x"} |-> JStr("true")]), JBool("true")}

ClaimObjects ==
    {JObj(<<>>)}
        \cup {JObj([k \in {"active"} |-> a]) : a \in ActiveValues}
        \cup {JObj([k \in {"nested"} |-> n]) : n \in NestedValues}
        \cup {JObj([k \in {"active", "nested"} |-> IF k = "active" THEN a ELSE n]) :
                 a \in ActiveValues, n \in NestedValues}

\* request_ctx.auth_claims: not set, a claims object, or a JSON value that is
\* not an object
AuthClaims == {None, Some(JStr("true"))} \cup {Some(o) : o \in ClaimObjects}

AccessContexts ==
    {[auth_claims |-> a,
      strings |-> [p \in OtherPaths |-> IF p = <<"claims">> THEN bare ELSE arg]] :
        a \in AuthClaims, arg \in {None, Some("42"), Some("true")},
        bare \in {None, Some("true")}}

InitAccess ==
    /\ SqlIdle /\ IoIdle /\ CodecsIdle
    /\ auth = <<>> /\ schema = <<>> /\ loader = <<>> /\ rope = <<>> /\ ExtIdle
    /\ \E e \in AccessExprs, c \in AccessContexts :
          access = [expr |-> e, ctx |-> c, done |-> FALSE, result |-> FALSE]

\* expr.evaluate(ctx)
Evaluate ==
    /\ ~access.done
    /\ access' = [access EXCEPT !.done = TRUE,
                                !.result = evaluate(access.expr, access.ctx)]
    /\ UNCHANGED <<sqlVars, ioVars, http, grpc, sse, sub, auth, schema, loader, rope, extVars>>

NextAccess == Evaluate

SpecAccess == InitAccess /\ [][NextAccess]_vars

IsClaimsPath(o) == o.kind = "Path" /\ Head(o.segments) = "claims" /\ Len(o.segments) > 1
IsLiteral(o) == o.kind # "Path"

\* the claims a path under claims.* names, read off the claims document: the
\* set is empty when the claim does not exist
ClaimsNamed(c, segments) ==
    LET roots == IF c.auth_claims = None THEN {} ELSE {c.auth_claims[1]}
        Members(vs, name) ==
            {v.fields[name] : v \in {w \in vs : w.type = "object" /\ name \in DOMAIN w.fields}}
    IN IF Len(segments) = 2 THEN Members(roots, segments[2])
       ELSE Members(Members(roots, segments[2]), segments[3])

LiteralType(o) ==
    CASE o.kind = "StringLiteral" -> "string"
      [] o.kind = "NumberLiteral" -> "number"
      [] o.kind = "BoolLiteral" -> "bool"

ClaimMatchesLiteral(c, path, literal) ==
    \E v \in ClaimsNamed(c, path.segments) :
        v.type = LiteralType(literal) /\ v.val = literal.lit

\* C12: claims.<path> == literal (in either order) is true exactly when the
\* claim exists and has the JSON type and the value of the literal.
TypeAwareEquality ==
    (access # <<>> /\ access.done /\ access.expr.op = "Eq") =>
        LET l == access.expr.left
            r == access.expr.right
        IN /\ (IsClaimsPath(l) /\ IsLiteral(r)) =>
                 (access.result <=> ClaimMatchesLiteral(access.ctx, l, r))
           /\ (IsLiteral(l) /\ IsClaimsPath(r)) =>
                 (access.result <=> ClaimMatchesLiteral(access.ctx, r, l))

TypeAwareEqualityWitness ==
    /\ access # <<>> /\ access.done
    /\ access.expr = Eq(Path(<<"claims", "active">>), BoolLiteral("true"))
    /\ access.ctx.auth_claims = Some(JObj([k \in {"active"} |-> JStr("true")]))
    /\ ~access.result

\* whether an operand stands for a value in the context, read off the context
Resolves(c, o) ==
    IF IsLiteral(o) THEN TRUE
    ELSE IF IsClaimsPath(o) THEN ClaimsNamed(c, o.segments) # {}
    ELSE c.strings[o.segments] # None

\* C13: a path operand that does not resolve yields None, and == between it
\* and an operand that resolves to a value is false.
MissingPathNeverEqual ==
    (access # <<>> /\ access.done /\ access.expr.op = "Eq") =>
        \A side \in {"left", "right"} :
            LET o == access.expr[side]
                other == access.expr[IF side = "left" THEN "right" ELSE "left"]
            IN (o.kind = "Path" /\ ~Resolves(access.ctx, o)) =>
                  /\ resolve_operand(o, access.ctx) = None
                  /\ Resolves(access.ctx, other) => ~access.result

MissingPathNeverEqualWitness ==
    /\ access # <<>> /\ access.done
    /\ access.expr = Eq(Path(<<"claims", "nested", "x">>), Path(<<"args", "id">>))
    /\ access.ctx.auth_claims = Some(JObj([k \in {"nested"} |-> JBool("true")]))
    /\ access.ctx.strings[<<"args", "id">>] = Some("true")
    /\ ~access.result

----------------------------------------------------------------------------
(* Further properties of the SQL synthesizer (specification Spec)          *)

\* C14: a SelectOne template renders to what the same template renders to as
\* a Select (columns, FROM, WHERE, ORDER BY and parameters; its own LIMIT and
\* OFFSET left aside) followed by LIMIT 1.
SelectOneIsSelectLimitOne ==
    (WasRendered /\ tmpl.operation = "SelectOne") =>
        LET asSelect == render_select([tmpl EXCEPT !.has_limit = FALSE,
                                                   !.has_offset = FALSE], ctx)
        IN IF asSelect.ok
           THEN /\ rendered.ok
                /\ rendered.sql = asSelect.sql \o <<" LIMIT 1">>
                /\ rendered.params = asSelect.params
           ELSE ~rendered.ok

\* the rendered input is a JSON object with a key outside a non-empty
\* compile-time column list
InputHasUnknownColumn ==
    /\ tmpl.columns # <<>>
    /\ tmpl.has_input /\ ctx.input.kind = "object"
    /\ \E i \in 1..Len(ctx.input.entries) :
          \A j \in 1..Len(tmpl.columns) : ctx.input.entries[i].k # tmpl.columns[j]

\* C15 as stated: every Insert or Update whose input names an unknown column
\* fails with the unknown-column error and produces no query.
UnknownColumnAlwaysReported ==
    (WasRendered /\ tmpl.operation \in {"Insert", "Update"} /\ InputHasUnknownColumn) =>
        /\ ~rendered.ok /\ rendered.sql = <<>>
        /\ rendered.err \in {"UnknownColumnInsert", "UnknownColumnUpdate"}

\* C15: an Insert or Update whose input names an unknown column produces no
\* query; the error is the unknown-column error, except for an Update
\* template without a filter, which fails with the missing-filter error.
UnknownColumnRejected ==
    (WasRendered /\ tmpl.operation \in {"Insert", "Update"} /\ InputHasUnknownColumn) =>
        /\ ~rendered.ok /\ rendered.sql = <<>> /\ rendered.params = <<>>
        /\ rendered.err =
              (IF tmpl.operation = "Insert" THEN "UnknownColumnInsert"
               ELSE IF tmpl.has_filter THEN "UnknownColumnUpdate"
               ELSE "UpdateWithoutFilter")

UnknownColumnRejectedWitness ==
    /\ WasRendered /\ tmpl.operation = "Insert" /\ InputHasUnknownColumn
    /\ Len(ctx.input.entries) = 2
    /\ ctx.input.entries[1].k = ColId
    /\ rendered.err = "UnknownColumnInsert"

----------------------------------------------------------------------------
(* core/postgres/sql_parser.rs: migrations applied to a DatabaseSchema     *)

MaxStatements == 3    \* statements of the migration files, in order

TableNames == {"t", "u"}
ViewNames == {"v"}
ColumnNames == <<"id", "a">>

\* sqlparser ColumnDef: name, a serial data type, NOT NULL, PRIMARY KEY, DEFAULT
ColumnDef(n, serial, notNull, pk, default) ==
    [name |-> n, serial |-> serial, not_null |-> notNull, primary_key |-> pk,
     default |-> default]

ColumnDefs ==
    {ColumnDef(n, FALSE, FALSE, FALSE, FALSE) : n \in Range(ColumnNames)}
        \cup {ColumnDef(n, FALSE, TRUE, FALSE, TRUE) : n \in Range(ColumnNames)}
        \cup {ColumnDef(n, FALSE, FALSE, TRUE, FALSE) : n \in Range(ColumnNames)}
        \cup {ColumnDef(n, TRUE, FALSE, FALSE, FALSE) : n \in Range(ColumnNames)}

\* Column
Column(n, nullable, hasDefault) ==
    [name |-> n, is_nullable |-> nullable, has_default |-> hasDefault]

\* column_from_def
column_from_def(col) ==
    Column(col.name, ~col.serial /\ ~(col.not_null \/ col.primary_key),
           col.serial \/ col.default)

\* Table
Table(cols, pk, fks, isView) ==
    [columns |-> cols, primary_key |-> pk, foreign_keys |-> fks, is_view |-> isView]

\* ForeignKey
ForeignKey(cols, refTable, refCols) ==
    [columns |-> cols, referenced_table |-> refTable, referenced_columns |-> refCols]

\* Vec::retain(|c| c.name != column_name)
Retain(cols, name) == SelectSeq(cols, LAMBDA c : c.name # name)

\* Statement
CreateTable(n, defs, pk, fks) ==
    [kind |-> "CreateTable", name |-> n, columns |-> defs, constraint_pk |-> pk,
     constraint_fks |-> fks]
AddColumn(n, def, ifNotExists) ==
    [kind |-> "AddColumn", name |-> n, column_def |-> def, if_not_exists |-> ifNotExists]
DropColumn(n, c) == [kind |-> "DropColumn", name |-> n, column_name |-> c]
CreateView(n, from) == [kind |-> "CreateView", name |-> n, from |-> from]

\* the CreateTable arm of apply_statement
apply_create_table(tables, stmt) ==
    LET columns == [i \in 1..Len(stmt.columns) |-> column_from_def(stmt.columns[i])]
        inline_pk_cols ==
            Flatten([i \in 1..Len(stmt.columns) |->
                        IF stmt.columns[i].primary_key THEN <<columns[i].name>> ELSE <<>>])
        primary_key ==
            IF stmt.constraint_pk # None THEN stmt.constraint_pk
            ELSE IF inline_pk_cols # <<>> THEN Some(inline_pk_cols)
            ELSE None
        forced ==
            [i \in 1..Len(columns) |->
                IF primary_key # None /\ columns[i].name \in Range(primary_key[1])
                THEN [columns[i] EXCEPT !.is_nullable = FALSE]
                ELSE columns[i]]
    IN [tables EXCEPT ![stmt.name] = Some(Table(forced, primary_key, stmt.constraint_fks, FALSE))]

\* apply_alter_op
apply_alter_op(table, op) ==
    IF op.kind = "AddColumn"
    THEN [table EXCEPT !.columns = Append(table.columns, column_from_def(op.column_def))]
    ELSE [table EXCEPT !.columns = Retain(table.columns, op.column_name)]

\* the AlterTable arm of apply_statement: an unknown table is left alone
apply_alter_table(tables, stmt) ==
    IF tables[stmt.name] = None THEN tables
    ELSE [tables EXCEPT ![stmt.name] = Some(apply_alter_op(tables[stmt.name][1], stmt))]

\* infer_view_columns_from_projection for SELECT *: the columns of every FROM
\* table the schema knows, nullable and without default
infer_view_columns_from_projection(tables, from) ==
    Flatten([i \in 1..Len(from) |->
                IF tables[from[i]] = None THEN <<>>
                ELSE LET cols == tables[from[i]][1].columns
                     IN [j \in 1..Len(cols) |-> Column(cols[j].name, TRUE, FALSE)]])

\* the CreateView arm of apply_statement
apply_create_view(tables, stmt) ==
    [tables EXCEPT ![stmt.name] =
        Some(Table(infer_view_columns_from_projection(tables, stmt.from), None, <<>>, TRUE))]

\* apply_statement
apply_statement(tables, stmt) ==
    CASE stmt.kind = "CreateTable" -> apply_create_table(tables, stmt)
      [] stmt.kind \in {"AddColumn", "DropColumn"} -> apply_alter_table(tables, stmt)
      [] stmt.kind = "CreateView" -> apply_create_view(tables, stmt)

\* DatabaseSchema::new over the names the migrations use
EmptySchema == [n \in TableNames \cup ViewNames |-> None]

\* The relations PostgreSQL itself holds after the same statements: column
\* names, primary-key columns, and for a view the tables it selects from.
Relation(cols, pk, fks, isView, from) ==
    [columns |-> cols, pk |-> pk, fks |-> fks, is_view |-> isView, from |-> from]

Distinct(s) == \A i, j \in 1..Len(s) : s[i] = s[j] => i = j

DefNames(defs) == [i \in 1..Len(defs) |-> defs[i].name]

InlineKeys(defs) == {defs[i].name : i \in {j \in 1..Len(defs) : defs[j].primary_key}}

ViewColumns(pg, from) ==
    Flatten([i \in 1..Len(from) |-> IF pg[from[i]] = None THEN <<>> ELSE pg[from[i]][1].columns])

\* some table has a foreign key that references column c of table n
IsReferenced(pg, n, c) ==
    \E m \in TableNames :
        /\ pg[m] # None
        /\ \E fk \in pg[m][1].fks :
            fk.referenced_table = n /\ c \in Range(fk.referenced_columns)

HasDependentView(pg, n) ==
    \E v \in ViewNames : pg[v] # None /\ n \in Range(pg[v][1].from)

\* The statement is one PostgreSQL accepts in the database state pg
Accepted(pg, stmt) ==
    CASE stmt.kind = "CreateTable" ->
            /\ pg[stmt.name] = None
            /\ Distinct(DefNames(stmt.columns))
            /\ Cardinality(InlineKeys(stmt.columns)) <= 1
            /\ stmt.constraint_pk # None =>
                /\ InlineKeys(stmt.columns) = {}
                /\ Range(stmt.constraint_pk[1]) \subseteq Range(DefNames(stmt.columns))
            /\ \A i \in 1..Len(stmt.constraint_fks) :
                LET fk == stmt.constraint_fks[i]
                IN /\ Range(fk.columns) \subseteq Range(DefNames(stmt.columns))
                   /\ pg[fk.referenced_table] # None
                   /\ ~pg[fk.referenced_table][1].is_view
                   /\ pg[fk.referenced_table][1].pk = Range(fk.referenced_columns)
      [] stmt.kind = "AddColumn" ->
            /\ pg[stmt.name] # None
            /\ ~pg[stmt.name][1].is_view
            /\ IF stmt.column_def.name \in Range(pg[stmt.name][1].columns)
               THEN stmt.if_not_exists
               ELSE stmt.column_def.primary_key => pg[stmt.name][1].pk = {}
      [] stmt.kind = "DropColumn" ->
            /\ pg[stmt.name] # None
            /\ ~pg[stmt.name][1].is_view
            /\ stmt.column_name \in Range(pg[stmt.name][1].columns)
            /\ ~HasDependentView(pg, stmt.name)
            /\ ~IsReferenced(pg, stmt.name, stmt.column_name)
      [] stmt.kind = "CreateView" ->
            /\ pg[stmt.name] = None
            /\ Distinct(stmt.from)
            /\ \A i \in 1..Len(stmt.from) : pg[stmt.from[i]] # None
            /\ ViewColumns(pg, stmt.from) # <<>>
            /\ Distinct(ViewColumns(pg, stmt.from))

\* The database state after PostgreSQL has run an accepted statement
Executed(pg, stmt) ==
    CASE stmt.kind = "CreateTable" ->
            [pg EXCEPT ![stmt.name] =
                Some(Relation(DefNames(stmt.columns),
                              IF stmt.constraint_pk # None
                              THEN Range(stmt.constraint_pk[1])
                              ELSE InlineKeys(stmt.columns),
                              Range(stmt.constraint_fks), FALSE, <<>>))]
      [] stmt.kind = "AddColumn" ->
            IF stmt.column_def.name \in Range(pg[stmt.name][1].columns) THEN pg
            ELSE [pg EXCEPT ![stmt.name] =
                    Some([@[1] EXCEPT
                            !.columns = Append(@, stmt.column_def.name),
                            !.pk = IF stmt.column_def.primary_key
                                   THEN {stmt.column_def.name} ELSE @])]
      [] stmt.kind = "DropColumn" ->
            [pg EXCEPT ![stmt.name] =
                Some([@[1] EXCEPT
                        !.columns = SelectSeq(@, LAMBDA c : c # stmt.column_name),
                        !.pk = IF stmt.column_name \in @ THEN {} ELSE @,
                        !.fks = {fk \in @ : stmt.column_name \notin Range(fk.columns)}])]
      [] stmt.kind = "CreateView" ->
            [pg EXCEPT ![stmt.name] =
                Some(Relation(ViewColumns(pg, stmt.from), {}, {}, TRUE, stmt.from))]

\* Column lists of the CREATE TABLE statements: id, a, or id then a
ColumnDefLists ==
    {<<d>> : d \in ColumnDefs}
        \cup {<<d, e>> : d \in {x \in ColumnDefs : x.name = "id"},
                         e \in {x \in ColumnDefs : x.name = "a"}}

\* FOREIGN KEY (a) REFERENCES <the other table> (id), or no foreign key
ForeignKeyLists(n) ==
    {<<>>} \cup {<<ForeignKey(<<"a">>, m, <<"id">>)>> : m \in TableNames \ {n}}

CreateTables ==
    UNION {{CreateTable(n, defs, pk, fks) :
                defs \in ColumnDefLists, pk \in {None, Some(<<"id">>)},
                fks \in ForeignKeyLists(n)} : n \in TableNames}

AddColumns ==
    {AddColumn(n, def, ine) : n \in TableNames, def \in ColumnDefs, ine \in BOOLEAN}

DropColumns == {DropColumn(n, c) : n \in TableNames, c \in Range(ColumnNames)}

CreateViews ==
    {CreateView(n, from) : n \in ViewNames, from \in {<<"t">>, <<"u">>, <<"t", "u">>}}

InitSchema ==
    /\ schema = [tables |-> EmptySchema, pg |-> EmptySchema, applied |-> 0]
    /\ SqlIdle /\ IoIdle /\ CodecsIdle
    /\ auth = <<>> /\ access = <<>> /\ loader = <<>> /\ rope = <<>> /\ ExtIdle

\* parse_migrations applying the next statement of the files
Apply(stmt) ==
    /\ schema.applied < MaxStatements
    /\ Accepted(schema.pg, stmt)
    /\ schema' = [tables |-> apply_statement(schema.tables, stmt),
                  pg |-> Executed(schema.pg, stmt),
                  applied |-> schema.applied + 1]
    /\ UNCHANGED <<sqlVars, ioVars, http, grpc, sse, sub, auth, access, loader, rope, extVars>>

ApplyCreateTable ==
    \E stmt \in CreateTables :
        /\ stmt.kind = "CreateTable"
        /\ Apply(stmt)

ApplyAddColumn ==
    \E stmt \in AddColumns :
        /\ stmt.kind = "AddColumn"
        /\ Apply(stmt)

ApplyDropColumn ==
    \E stmt \in DropColumns :
        /\ stmt.kind = "DropColumn"
        /\ Apply(stmt)

ApplyCreateView ==
    \E stmt \in CreateViews :
        /\ stmt.kind = "CreateView"
        /\ Apply(stmt)

NextSchema == ApplyCreateTable \/ ApplyAddColumn \/ ApplyDropColumn \/ ApplyCreateView

SpecSchema == InitSchema /\ [][NextSchema]_vars

SchemaTables == {n \in DOMAIN schema.tables : schema.tables[n] # None}

TableOf(n) == schema.tables[n][1]

\* C16: after any sequence of recognised migration statements, every column
\* of a table that is listed in the table's primary key has is_nullable = false.
PrimaryKeyColumnsNotNull ==
    schema # <<>> =>
        \A n \in SchemaTables :
            TableOf(n).primary_key # None =>
                \A i \in 1..Len(TableOf(n).columns) :
                    TableOf(n).columns[i].name \in Range(TableOf(n).primary_key[1])
                        => ~TableOf(n).columns[i].is_nullable

\* C17: after any sequence of recognised migration statements, no table or
\* view of the schema has two columns with the same name.
ColumnNamesUnique ==
    schema # <<>> =>
        \A n \in SchemaTables :
            Distinct([i \in 1..Len(TableOf(n).columns) |-> TableOf(n).columns[i].name])

----------------------------------------------------------------------------
(* core/postgres/data_loader.rs, core/ir/eval_io.rs: Postgres batch group  *)

NumCallers == 3    \* fields of one request resolved in the same window

Callers == 1..NumCallers

\* RenderedQuery: the key of the Postgres loader
Queries == {"q1", "q2"}

QuerySeqs == {<<"q1">>, <<"q2">>, <<"q1", "q2">>, <<"q2", "q1">>}

\* Result of PostgresIO::execute, of Loader::load for one key, of a caller
Value(q) == [kind |-> "value", val |-> q]
Failure(q) == [kind |-> "error", val |-> q]
Nothing == [kind |-> "none", val |-> ""]

\* What the database does with each query of the request
Executions == [Queries -> {"value", "error"}]

\* PostgresIO::execute(&key.query.sql, &key.query.params)
execute(db, q) == IF db[q] = "value" THEN Value(q) ELSE Failure(q)

\* Index of the first key whose execution fails, 0 when none does
FirstFailure(db, keys) ==
    LET bad == {i \in 1..Len(keys) : db[keys[i]] = "error"}
    IN IF bad = {} THEN 0 ELSE CHOOSE i \in bad : \A j \in bad : i <= j

\* Loader::load that skips a failed key and returns the values of the others
load_partial(db, keys) ==
    [ok |-> TRUE,
     err |-> Nothing,
     values |-> [q \in {k \in Range(keys) : db[k] = "value"} |-> execute(db, q)],
     executed |-> keys]

\* Loader::load for PostgresDataLoader: one execute per key, in order; the
\* first failure returns the error and drops the values collected so far
load(db, keys) ==
    LET failed == FirstFailure(db, keys)
    IN IF failed = 0
       THEN [ok |-> TRUE,
             err |-> Nothing,
             values |-> [q \in Range(keys) |-> execute(db, q)],
             executed |-> keys]
       ELSE [ok |-> FALSE,
             err |-> execute(db, keys[failed]),
             values |-> <<>>,
             executed |-> SubSeq(keys, 1, failed)]

\* One upstream request: the batch that issued it (0: none) and its query
Upstream(b, q) == [batch |-> b, query |-> q]

\* DataLoader handing the outcome of a batch to a caller waiting on key q
Dispatched(ret, q) ==
    IF ~ret.ok THEN ret.err
    ELSE IF q \in DOMAIN ret.values THEN ret.values[q]
    ELSE Nothing

InitLoader ==
    /\ \E db \in Executions :
        loader = [db |-> db,
                  key |-> [c \in Callers |-> ""],
                  batch |-> [c \in Callers |-> 0],
                  waiting |-> {},
                  answer |-> [c \in Callers |-> Nothing],
                  upstream |-> <<>>,
                  batches |-> 0]
    /\ SqlIdle /\ IoIdle /\ CodecsIdle
    /\ auth = <<>> /\ access = <<>> /\ schema = <<>> /\ rope = <<>> /\ ExtIdle

Idle(c) == loader.key[c] = ""

\* eval_io_inner, IO::Postgres arm: render and execute, no loader involved
EvalIoPostgres(c, q) ==
    /\ Idle(c)
    /\ loader' = [loader EXCEPT !.key[c] = q,
                                !.answer[c] = execute(loader.db, q),
                                !.upstream = Append(@, Upstream(0, q))]
    /\ UNCHANGED <<sqlVars, ioVars, http, grpc, sse, sub, auth, access, schema, rope, extVars>>

\* DataLoader::load_one(key): the caller joins the open window
LoadOne(c, q) ==
    /\ Idle(c)
    /\ loader' = [loader EXCEPT !.key[c] = q, !.waiting = @ \cup {c}]
    /\ UNCHANGED <<sqlVars, ioVars, http, grpc, sse, sub, auth, access, schema, rope, extVars>>

\* The window closes: the distinct keys go to Loader::load in some order and
\* every waiting caller is answered from its outcome
CloseWindow(keys) ==
    /\ loader.waiting # {}
    /\ Range(keys) = {loader.key[c] : c \in loader.waiting}
    /\ LET b == loader.batches + 1
           ret == load(loader.db, keys)
       IN loader' = [loader EXCEPT
                !.batches = b,
                !.batch = [c \in Callers |-> IF c \in loader.waiting THEN b ELSE @[c]],
                !.answer = [c \in Callers |->
                               IF c \in loader.waiting
                               THEN Dispatched(ret, loader.key[c]) ELSE @[c]],
                !.upstream = @ \o [i \in 1..Len(ret.executed) |-> Upstream(b, ret.executed[i])],
                !.waiting = {}]
    /\ UNCHANGED <<sqlVars, ioVars, http, grpc, sse, sub, auth, access, schema, rope, extVars>>

NextLoader ==
    \/ \E c \in Callers, q \in Queries : EvalIoPostgres(c, q)
    \/ \E c \in Callers, q \in Queries : LoadOne(c, q)
    \/ \E keys \in QuerySeqs : CloseWindow(keys)

SpecLoader == InitLoader /\ [][NextLoader]_vars

BatchRequests(b) == {i \in 1..Len(loader.upstream) : loader.upstream[i].batch = b}

BatchCallers(b) == {c \in Callers : loader.batch[c] = b}

BatchFailed(b) ==
    \E i \in BatchRequests(b) : loader.db[loader.upstream[i].query] = "error"

\* C18: the load(key) calls of a Postgres batch group that fall in one window
\* are deduplicated by key and served by a single batched upstream request,
\* and each waiting caller receives the result of its key.
WindowServedBySingleRequest ==
    loader # <<>> =>
        /\ \A i \in 1..Len(loader.upstream) : loader.upstream[i].batch # 0
        /\ \A b \in 1..loader.batches :
            /\ Cardinality(BatchRequests(b)) = 1
            /\ ~BatchFailed(b) =>
                \A c \in BatchCallers(b) :
                    loader.answer[c] = execute(loader.db, loader.key[c])

\* C19: when the execution of a batch fails, every caller waiting on that
\* batch receives the same error and none receives a value.
FailedBatchFailsAllCallers ==
    loader # <<>> =>
        \A b \in 1..loader.batches :
            BatchFailed(b) =>
                /\ \A c \in BatchCallers(b) : loader.answer[c].kind = "error"
                /\ \A c, d \in BatchCallers(b) : loader.answer[c] = loader.answer[d]

\* A failed batch with two callers waiting on different keys, one of which
\* the database did execute successfully
FailedBatchFailsAllCallersWitness ==
    /\ loader # <<>>
    /\ \E b \in 1..loader.batches :
        /\ BatchFailed(b)
        /\ \E c, d \in BatchCallers(b) :
            /\ loader.key[c] # loader.key[d]
            /\ loader.db[loader.key[c]] = "value"
            /\ \E i \in BatchRequests(b) : loader.upstream[i].query = loader.key[c]

----------------------------------------------------------------------------
(* gqlforge-chunk/src/chunk.rs: the Chunk rope                             *)

MaxVecLen == 2    \* longest vector held by a Collect of the inputs

Elems == {0, 1}

\* Chunk<A>; a Collect carries the strong count of its Rc
Empty == <<"Empty">>
Single(a) == <<"Single", a>>
Concat(l, r) == <<"Concat", l, r>>
Collect(vec, strong_count) == <<"Collect", vec, strong_count>>
TransformFlatten(c, f) == <<"TransformFlatten", c, f>>

\* Chunk::concat that builds the fallback Concat the wrong way round
concat_swapped(this, other) ==
    IF this = Empty THEN other
    ELSE IF other = Empty THEN this
    ELSE IF this[1] = "Single" /\ other[1] = "Single"
         THEN Collect(<<this[2], other[2]>>, 1)
    ELSE IF this[1] = "Collect" /\ other[1] = "Single"
         THEN IF this[3] = 1
              THEN Collect(Append(this[2], other[2]), 1)
              ELSE Concat(this, other)
    ELSE Concat(other, this)

\* Chunk::concat
concat(this, other) ==
    IF this = Empty THEN other
    ELSE IF other = Empty THEN this
    ELSE IF this[1] = "Single" /\ other[1] = "Single"
         THEN Collect(<<this[2], other[2]>>, 1)
    ELSE IF this[1] = "Collect" /\ other[1] = "Single"
         THEN IF this[3] = 1
              THEN Collect(Append(this[2], other[2]), 1)
              ELSE Concat(this, other)
    ELSE Concat(this, other)

\* Chunk::append
append(this, a) == concat(this, Single(a))

\* The closures given to transform_flatten
Transforms == {"new", "pair", "empty"}

CallFn(f, a) ==
    CASE f = "new" -> Single(a)
      [] f = "pair" -> append(append(Empty, a), 1 - a)
      [] f = "empty" -> Empty

\* Chunk::as_vec_mut, returning the buffer
RECURSIVE as_vec_mut(_, _)
RECURSIVE ExtendEach(_, _, _)

\* for elem in tmp.into_iter() { f(elem).as_vec_mut(buf) }
ExtendEach(f, tmp, buf) ==
    IF tmp = <<>> THEN buf
    ELSE ExtendEach(f, Tail(tmp), as_vec_mut(CallFn(f, Head(tmp)), buf))

as_vec_mut(c, buf) ==
    CASE c[1] = "Empty" -> buf
      [] c[1] = "Single" -> Append(buf, c[2])
      [] c[1] = "Concat" -> as_vec_mut(c[3], as_vec_mut(c[2], buf))
      [] c[1] = "TransformFlatten" -> ExtendEach(c[3], as_vec_mut(c[2], <<>>), buf)
      [] c[1] = "Collect" -> buf \o c[2]

\* Chunk::as_vec
as_vec(c) == as_vec_mut(c, <<>>)

\* Vectors of the input Collects: 0, 1, 0, ... cut at each length
Vecs == {[i \in 1..n |-> (i - 1) % 2] : n \in 0..MaxVecLen}

\* A Collect is uniquely owned or has a clone elsewhere
StrongCounts == {1, 2}

Leaves ==
    {Empty} \cup {Single(a) : a \in Elems}
        \cup {Collect(v, n) : v \in Vecs, n \in StrongCounts}

Chunks ==
    Leaves \cup {Concat(l, r) : l \in Leaves, r \in Leaves}
           \cup {TransformFlatten(c, f) : c \in Leaves, f \in Transforms}

InitRope ==
    /\ \E a \in Chunks, b \in Chunks, x \in Elems :
        rope = [a |-> a, b |-> b, x |-> x, op |-> "none", result |-> Empty]
    /\ SqlIdle /\ IoIdle /\ CodecsIdle
    /\ auth = <<>> /\ access = <<>> /\ schema = <<>> /\ loader = <<>> /\ ExtIdle

\* a.concat(b)
RopeConcat ==
    /\ rope.op = "none"
    /\ rope' = [rope EXCEPT !.op = "concat", !.result = concat(rope.a, rope.b)]
    /\ UNCHANGED <<sqlVars, ioVars, http, grpc, sse, sub, auth, access, schema, loader, extVars>>

\* a.append(x)
RopeAppend ==
    /\ rope.op = "none"
    /\ rope' = [rope EXCEPT !.op = "append", !.result = append(rope.a, rope.x)]
    /\ UNCHANGED <<sqlVars, ioVars, http, grpc, sse, sub, auth, access, schema, loader, extVars>>

NextRope == RopeConcat \/ RopeAppend

SpecRope == InitRope /\ [][NextRope]_vars

\* C20: as_vec(a.concat(b)) is as_vec(a) followed by as_vec(b), and
\* as_vec(a.append(x)) is as_vec(a) followed by x, whatever variants a and b
\* are; concatenating with an empty chunk leaves the sequence unchanged.
ConcatAppendsSequences ==
    rope # <<>> =>
        /\ rope.op = "concat" =>
            /\ as_vec(rope.result) = as_vec(rope.a) \o as_vec(rope.b)
            /\ rope.b = Empty => as_vec(rope.result) = as_vec(rope.a)
            /\ rope.a = Empty => as_vec(rope.result) = as_vec(rope.b)
        /\ rope.op = "append" =>
            as_vec(rope.result) = Append(as_vec(rope.a), rope.x)

\* A lazily transformed chunk concatenated with a shared, non-empty Collect
ConcatAppendsSequencesWitness ==
    /\ rope # <<>>
    /\ rope.op = "concat"
    /\ rope.a[1] = "TransformFlatten"
    /\ Len(as_vec(rope.a)) = 2
    /\ rope.b[1] = "Collect"
    /\ Len(rope.b[2]) = 2
    /\ rope.result[1] = "Concat"

----------------------------------------------------------------------------
(* Further properties of the access expressions (specification SpecAccess) *)

IsComparison(e) == e.op \in {"Eq", "Neq"}

HasUnresolvedPath(c, e) ==
    \E o \in {e.left, e.right} : o.kind = "Path" /\ ~Resolves(c, o)

\* C26: a comparison in which an operand path does not resolve never
\* evaluates to true, for != as well as for ==.
UnresolvedPathNeverGrants ==
    (access # <<>> /\ access.done /\ IsComparison(access.expr)) =>
        (HasUnresolvedPath(access.ctx, access.expr) => ~access.result)

----------------------------------------------------------------------------
(* Safety of the write statements (specification Spec)                     *)

WhereAt(sql) == {i \in 1..Len(sql) : sql[i] = " WHERE "}

\* C27: no successfully rendered UPDATE or DELETE has a WHERE clause that
\* holds for every row; its filter constrains at least one column.
WriteFilterConstrainsRows ==
    (rendered.ok /\ tmpl # <<>> /\ tmpl.operation \in {"Update", "Delete"}) =>
        /\ WhereAt(rendered.sql) # {}
        /\ \A i \in WhereAt(rendered.sql) :
            i < Len(rendered.sql) /\ rendered.sql[i + 1] # "TRUE"

\* what stands in front of a placeholder, and the value it has to stand for
Slot(lead, value) == [lead |-> lead, value |-> value]

EntrySlots(json) ==
    [i \in 1..Len(json.entries) |->
        Slot(quote_ident(json.entries[i].k) \o <<" = ">>, json.entries[i].v)]

FilterSlots == IF tmpl.has_filter THEN EntrySlots(ctx.filter) ELSE <<>>

InsertSlots ==
    [i \in 1..Len(ctx.input.entries) |->
        Slot(IF i = 1 THEN <<") VALUES (">> ELSE <<", ">>, ctx.input.entries[i].v)]

\* the slots of the statement from left to right
ExpectedSlots ==
    CASE tmpl.operation = "Select" ->
            FilterSlots
                \o (IF LimitValue = <<>> THEN <<>> ELSE <<Slot(<<" LIMIT ">>, ctx.limit)>>)
                \o (IF OffsetValue = <<>> THEN <<>> ELSE <<Slot(<<" OFFSET ">>, ctx.offset)>>)
      [] tmpl.operation = "Insert" -> InsertSlots
      [] tmpl.operation = "Update" -> EntrySlots(ctx.input) \o FilterSlots
      [] OTHER -> FilterSlots

PlaceholderPositions(sql) == {i \in 1..Len(sql) : IsPlaceholder(sql[i])}

PositionOf(sql, k) == CHOOSE i \in PlaceholderPositions(sql) : sql[i] = Placeholder(k)

EndsWith(s, suffix) ==
    Len(suffix) <= Len(s) /\ SubSeq(s, Len(s) - Len(suffix) + 1, Len(s)) = suffix

\* C28: in every rendered query the placeholders are exactly $1..$n with
\* n = params.len(), each once and increasing from left to right, and $k
\* stands at the position whose value is params[k-1] (for Update the SET
\* values first, then the filter values).
PlaceholdersNumberParams ==
    (WasRendered /\ rendered.ok) =>
        LET sql == rendered.sql
            n == Len(rendered.params)
        IN /\ Cardinality(PlaceholderPositions(sql)) = n
           /\ \A k \in 1..n : \E i \in PlaceholderPositions(sql) : sql[i] = Placeholder(k)
           /\ \A j, k \in 1..n : j < k => PositionOf(sql, j) < PositionOf(sql, k)
           /\ Len(ExpectedSlots) = n
           /\ \A k \in 1..n :
                /\ rendered.params[k] = ExpectedSlots[k].value
                /\ EndsWith(SubSeq(sql, 1, PositionOf(sql, k) - 1), ExpectedSlots[k].lead)

\* An Update with two SET values followed by two filter values
PlaceholdersNumberParamsWitness ==
    /\ WasRendered /\ rendered.ok
    /\ tmpl.operation = "Update"
    /\ Len(ctx.input.entries) = 2 /\ Len(ctx.filter.entries) = 2
    /\ ctx.input.entries[1].k # ctx.filter.entries[1].k
    /\ Len(rendered.params) = 4

----------------------------------------------------------------------------
(* The buffer of the GrpcFrameDecoder (specification SpecGrpc)             *)

HoldsCompleteFrame(buf) ==
    Len(buf) >= 5 /\ Len(buf) >= 5 + U32FromBe(buf[2], buf[3], buf[4], buf[5])

\* C29: after every decode call the buffer holds exactly the bytes received
\* so far that belong to no emitted frame, and they never contain a complete
\* frame.
BufferIsIncompleteTail ==
    grpc # <<>> =>
        /\ grpc.buffer
             = SubSeq(grpc.wire, FrameEnd(grpc.frames, Len(grpc.out)) + 1, grpc.fed)
        /\ ~HoldsCompleteFrame(grpc.buffer)

\* One frame emitted, the header and part of the payload of the next retained
BufferIsIncompleteTailWitness ==
    /\ grpc # <<>>
    /\ Len(grpc.out) = 1
    /\ Len(grpc.buffer) > 5
    /\ grpc.fed < Len(grpc.wire)
    /\ grpc.chunks >= 2

----------------------------------------------------------------------------
(* Key columns of the parsed schema (specification SpecSchema)             *)

TableColumnNames(n) == {TableOf(n).columns[i].name : i \in 1..Len(TableOf(n).columns)}

\* C30: after any sequence of recognised migration statements, every column
\* named by a table's primary_key or by the columns of one of its
\* foreign_keys is a column present in that table.
KeyColumnsExist ==
    schema # <<>> =>
        \A n \in SchemaTables :
            /\ TableOf(n).primary_key # None =>
                 Range(TableOf(n).primary_key[1]) \subseteq TableColumnNames(n)
            /\ \A i \in 1..Len(TableOf(n).foreign_keys) :
                 Range(TableOf(n).foreign_keys[i].columns) \subseteq TableColumnNames(n)

----------------------------------------------------------------------------
(* Headers and URL of the outgoing HTTP request (specification SpecHttp)   *)

\* the value the template itself gives to header name n, if any
TemplateValues(t, c, n) ==
    {h.value : h \in {g \in create_headers(t, c) : g.name = n}}

\* C22: a header both inherited from the incoming request and set by the
\* template carries the template's value in the outgoing request; for a
\* non-GET request Content-Type is the one derived from the encoding.
TemplateHeadersOverride ==
    http # <<>> =>
        \A u \in DOMAIN http.out :
            (http.out[u].done /\ http.out[u].req.ok) =>
                /\ \A h \in Range(http.ctx[u].headers) :
                     \A v \in TemplateValues(http.tmpl, http.ctx[u], h.name) :
                        Header(h.name, v) \in http.out[u].req.headers
                /\ http.tmpl.method # "GET" =>
                     Header("content-type", "application/json") \in http.out[u].req.headers

----------------------------------------------------------------------------
(* core/http/request_template/mod.rs: RequestTemplate::create_url with     *)
(* query pairs in root_url and templated query parameters                  *)
(* (specification SpecUrl).  A query string is a sequence of atoms: keys,  *)
(* "=", "&" and non-empty values; the empty text contributes no atom.      *)

MaxRootPairs == 2
MaxQuery == 1

RootKeys == {"a", "q"}
QueryKeys == {"b"}
UrlMustaches == {Literal(""), Literal("1"), Expression("args.a")}

QueryPair(k, v) == [key |-> k, value |-> v]
Query(k, v, skip) == [key |-> k, value |-> v, skip_empty |-> skip]

TextOf(s) == IF s = "" THEN <<>> ELSE <<s>>

\* Mustache::is_const: no expression segment
MustacheIsConst(m) == m.kind = "Literal"

\* root_url is "http://u/" followed by "?k=v&..." with a Mustache per value
RootUrlIsConst(root) == \A i \in 1..Len(root) : MustacheIsConst(root[i].value)

\* self.root_url.render(ctx), the part after "?"
RenderRootQuery(root, c) ==
    JoinWith([i \in 1..Len(root) |->
                <<root[i].key, "=">> \o TextOf(MustacheRender(root[i].value, c))],
             <<"&">>)

\* Url::parse of the rendered root_url: the query is None without "?"
UrlParse(root, c) ==
    [query |-> IF root = <<>> THEN None ELSE Some(RenderRootQuery(root, c))]

\* Url::query_pairs: split at "&", drop empty pieces, split each at its first "="
query_pairs(u) ==
    IF u.query = None THEN <<>>
    ELSE LET pieces == SelectSeq(SplitOn(u.query[1], "&"), LAMBDA p : p # <<>>)
             kv(p) == LET parts == SplitOn(p, "=")
                      IN QueryPair(parts[1], JoinWith(Tail(parts), <<"=">>))
         IN [i \in 1..Len(pieces) |-> kv(pieces[i])]

\* ValueStringEval::eval: the literal, or the raw value the context has, if any
ValueStringEval(m, c) == IF m.kind = "Literal" THEN Some(m.arg) ELSE c.raw[m.arg]

\* QueryEncoder::encode: the key alone without a value, key=value otherwise
encode(key, parsed_value) ==
    IF parsed_value = None THEN <<key>>
    ELSE <<key, "=">> \o TextOf(parsed_value[1])

\* the fold of create_url: non-empty items joined with "&"
RECURSIVE FoldQuery(_, _)
FoldQuery(str, items) ==
    IF items = <<>> THEN str
    ELSE LET item == Head(items)
             next == IF str = <<>> THEN item
                     ELSE IF item = <<>> THEN str
                     ELSE str \o <<"&">> \o item
         IN FoldQuery(next, Tail(items))

CreateUrl(t, c) ==
    LET parsed == UrlParse(t.root_url, c)
        kept == SelectSeq(t.query,
                    LAMBDA q : ~(q.skip_empty /\ ValueStringEval(q.value, c) = None))
        extra_qp == [i \in 1..Len(kept) |->
                        encode(kept[i].key, ValueStringEval(kept[i].value, c))]
        base_qp == SelectSeq(query_pairs(parsed), LAMBDA p : p.value # <<>>)
        base_str == [i \in 1..Len(base_qp) |->
                        <<base_qp[i].key, "=">> \o base_qp[i].value]
        qp_string == FoldQuery(<<>>, base_str \o extra_qp)
    IN IF t.query = <<>> /\ RootUrlIsConst(t.root_url) THEN parsed
       ELSE IF qp_string = <<>> THEN [query |-> None]
       ELSE [query |-> Some(qp_string)]

RECURSIVE SeqsUpTo(_, _)
SeqsUpTo(S, n) ==
    IF n = 0 THEN {<<>>}
    ELSE LET shorter == SeqsUpTo(S, n - 1)
         IN shorter \cup {Append(s, x) : s \in shorter, x \in S}

RootUrls == SeqsUpTo({QueryPair(k, v) : k \in RootKeys, v \in UrlMustaches}, MaxRootPairs)
UrlQueries == SeqsUpTo({Query(k, v, s) : k \in QueryKeys, v \in UrlMustaches,
                                         s \in BOOLEAN}, MaxQuery)

\* the context has no args.a, an empty one, or "1"
UrlContext(opt) ==
    [vars |-> [p \in {"args.a"} |-> IF opt = None THEN "" ELSE opt[1]],
     raw |-> [p \in {"args.a"} |-> opt]]
UrlContexts == {UrlContext(opt) : opt \in {None, Some(""), Some("1")}}

NoUrl == [query |-> Some(<<"?">>)]

InitUrl ==
    /\ \E root \in RootUrls, qs \in UrlQueries, c \in UrlContexts :
        url = [tmpl |-> [root_url |-> root, query |-> qs], ctx |-> c,
               done |-> FALSE, out |-> NoUrl]
    /\ SqlIdle /\ IoIdle /\ CodecsIdle /\ LibIdle
    /\ pgwire = <<>> /\ links = <<>> /\ heap = <<>>

\* self.create_url(ctx)
CreateUrlCall ==
    /\ ~url.done
    /\ url' = [url EXCEPT !.done = TRUE, !.out = CreateUrl(url.tmpl, url.ctx)]
    /\ UNCHANGED <<sqlVars, ioVars, http, grpc, sse, sub, libVars, pgwire, links, heap>>

NextUrl == CreateUrlCall

SpecUrl == InitUrl /\ [][NextUrl]_vars

\* C23: the URL create_url returns has no query pair of the rendered root_url
\* (the keys a and q) with an empty value.
RootUrlEmptyPairsDropped ==
    (url # <<>> /\ url.done) =>
        \A i \in 1..Len(query_pairs(url.out)) :
            query_pairs(url.out)[i].key \in RootKeys
                => query_pairs(url.out)[i].value # <<>>

----------------------------------------------------------------------------
(* core/blueprint/links.rs: Links::try_from (specification SpecLinks)      *)

MaxLinks == 3

LinkTypes == {"Script", "Key", "Postgres"}
LinkSrcs == {"", "db"}
LinkIds == {None, Some("main"), Some("analytics")}

Link(src, type_of, id) == [src |-> src, type_of |-> type_of, id |-> id]

LinkLists ==
    SeqsUpTo({Link(s, t, i) : s \in LinkSrcs, t \in LinkTypes, i \in LinkIds}, MaxLinks)

OfType(ls, t) == SelectSeq(ls, LAMBDA l : l.type_of = t)

LinksOk == [ok |-> TRUE, errors |-> <<>>]
LinksErr(es) == [ok |-> FALSE, errors |-> es]

\* the closure run on every (pos, link): at most one error per link
LinkErrors(ls, pos) ==
    LET link == ls[pos] IN
    IF link.src = "" THEN <<<<"LinkSrcCannotBeEmpty", pos>>>>
    ELSE IF link.id # None
            /\ Len(SelectSeq(ls, LAMBDA l : l.id = link.id)) > 1
         THEN <<<<"Duplicated", pos>>>>
    ELSE <<>>

\* the checks chained after Valid::from_iter; each runs only if all before passed
LinkListError(ls) ==
    IF Len(OfType(ls, "Script")) > 1 THEN <<<<"OnlyOneScriptLinkAllowed", 0>>>>
    ELSE IF Len(OfType(ls, "Key")) > 1 THEN <<<<"OnlyOneKeyLinkAllowed", 0>>>>
    ELSE IF Len(OfType(ls, "Postgres")) > 1
            /\ \E i \in 1..Len(OfType(ls, "Postgres")) : OfType(ls, "Postgres")[i].id = None
         THEN <<<<"PostgresMultipleLinksRequireId", 0>>>>
    ELSE <<>>

\* try_from without the last check of the chain
try_from_ids_optional(ls) ==
    LET each == Flatten([pos \in 1..Len(ls) |-> LinkErrors(ls, pos)]) IN
    IF each # <<>> THEN LinksErr(each)
    ELSE IF Len(OfType(ls, "Script")) > 1 THEN LinksErr(<<<<"OnlyOneScriptLinkAllowed", 0>>>>)
    ELSE IF Len(OfType(ls, "Key")) > 1 THEN LinksErr(<<<<"OnlyOneKeyLinkAllowed", 0>>>>)
    ELSE LinksOk

\* Links::try_from: Valid::from_iter gathers the errors of all links; the
\* list-wide checks follow only when there is none
try_from(ls) ==
    LET each == Flatten([pos \in 1..Len(ls) |-> LinkErrors(ls, pos)]) IN
    IF each # <<>> THEN LinksErr(each)
    ELSE IF LinkListError(ls) # <<>> THEN LinksErr(LinkListError(ls))
    ELSE LinksOk

InitLinks ==
    /\ \E ls \in LinkLists : links = [list |-> ls, done |-> FALSE, result |-> LinksOk]
    /\ SqlIdle /\ IoIdle /\ CodecsIdle /\ LibIdle
    /\ url = <<>> /\ pgwire = <<>> /\ heap = <<>>

\* Links::try_from(links)
TryFrom ==
    /\ ~links.done
    /\ links' = [links EXCEPT !.done = TRUE, !.result = try_from(links.list)]
    /\ UNCHANGED <<sqlVars, ioVars, http, grpc, sse, sub, libVars, url, pgwire, heap>>

NextLinks == TryFrom

SpecLinks == InitLinks /\ [][NextLinks]_vars

PostgresLinks == OfType(links.list, "Postgres")

\* C25: a list with more than one Postgres link is accepted only if every
\* Postgres link has an id and no two Postgres links have the same id.
MultiplePostgresNeedUniqueIds ==
    (links # <<>> /\ links.done /\ links.result.ok /\ Len(PostgresLinks) > 1) =>
        /\ \A i \in 1..Len(PostgresLinks) : PostgresLinks[i].id # None
        /\ \A i, j \in 1..Len(PostgresLinks) :
            i # j => PostgresLinks[i].id # PostgresLinks[j].id

MultiplePostgresNeedUniqueIdsWitness ==
    links # <<>> /\ links.done /\ links.result.ok /\ Len(PostgresLinks) > 1

----------------------------------------------------------------------------
(* cli/postgres/pool/array.rs and binary_format.rs: the PostgreSQL binary  *)
(* decoders (specification SpecPgwire).  raw is a sequence of bytes; the   *)
(* code's raw[i] is At(raw, i).  A decoder's outcome is Ok, Err or Panic   *)
(* (an index out of bounds, an arithmetic overflow that panics), with the  *)
(* largest capacity it asked Vec::with_capacity for.                       *)

MaxArrayWords == 5
MaxScalarWords == 4

DecOk(n) == [kind |-> "Ok", alloc |-> n]
DecErr(n) == [kind |-> "Err", alloc |-> n]
DecPanic(n) == [kind |-> "Panic", alloc |-> n]

Larger(a, b) == IF a >= b THEN a ELSE b

At(raw, i) == raw[i + 1]
\* &raw[lo..hi]
Slice(raw, lo, hi) == SubSeq(raw, lo + 1, hi)

RECURSIVE FromBeBytes(_)
\* uN::from_be_bytes
FromBeBytes(bytes) ==
    IF bytes = <<>> THEN 0
    ELSE bytes[Len(bytes)] + 256 * FromBeBytes(SubSeq(bytes, 1, Len(bytes) - 1))

\* i16::from_be_bytes, i32::from_be_bytes
I16(bytes) ==
    IF FromBeBytes(bytes) >= 32768 THEN FromBeBytes(bytes) - 65536 ELSE FromBeBytes(bytes)
I32(bytes) ==
    (IF bytes[1] >= 128 THEN bytes[1] - 256 ELSE bytes[1]) * 16777216
        + FromBeBytes(Tail(bytes))

\* format_uuid
format_uuid(raw) ==
    IF Len(raw) < 16 THEN DecErr(0)
    ELSE IF \E i \in 0..15 : i >= Len(raw) THEN DecPanic(0)
    ELSE DecOk(0)

\* parse_pg_numeric: the digits vector is the only capacity it reserves
parse_pg_numeric(raw) ==
    IF Len(raw) < 8 THEN DecErr(0)
    ELSE LET ndigits == I16(Slice(raw, 0, 2))
             sign == FromBeBytes(Slice(raw, 4, 6))
             dscale == I16(Slice(raw, 6, 8))
             expected_len == 8 + ndigits * 2
         IN IF ndigits < 0 THEN DecErr(0)
            ELSE IF dscale < 0 THEN DecErr(0)
            ELSE IF sign \in {49152, 53248, 61440} THEN DecOk(0)
            ELSE IF ndigits = 0 THEN DecOk(0)
            ELSE IF Len(raw) < expected_len THEN DecErr(0)
            ELSE IF \E i \in 0..(ndigits - 1) : 8 + i * 2 + 1 >= Len(raw)
                 THEN DecPanic(ndigits)
            ELSE DecOk(ndigits)

\* format_inet
format_inet(raw) ==
    IF Len(raw) < 4 THEN DecErr(0)
    ELSE LET family == At(raw, 0)
             addr_len == At(raw, 3)
         IN IF Len(raw) < 4 + addr_len THEN DecErr(0)
            ELSE IF family = 2
                 THEN IF addr_len # 4 THEN DecErr(0) ELSE DecOk(0)
            ELSE IF family = 3
                 THEN IF addr_len # 16 THEN DecErr(0) ELSE DecOk(8)
            ELSE DecErr(0)

\* format_macaddr
format_macaddr(raw) ==
    IF Len(raw) = 8 THEN DecOk(0)
    ELSE IF Len(raw) >= 6 THEN DecOk(0)
    ELSE DecErr(0)

\* format_interval
format_interval(raw) == IF Len(raw) < 16 THEN DecErr(0) ELSE DecOk(0)

\* format_timetz
format_timetz(raw) ==
    IF Len(raw) < 12 THEN DecErr(0)
    ELSE IF At(raw, 0) >= 128 THEN DecErr(0)
    ELSE DecOk(0)

\* NaiveDate + Duration::days(days): chrono's Add panics outside NaiveDate::MIN ..
\* NaiveDate::MAX (years -262143 .. 262142), counted in days from 2000-01-01
DateAddOverflows(days) == days < -96476249 \/ days > 95015279

\* raw_element_to_const
raw_element_to_const(ty, raw) ==
    CASE ty = "BOOL" -> DecOk(0)
      [] ty = "INT4" -> IF Len(raw) # 4 THEN DecErr(0) ELSE DecOk(0)
      [] ty = "DATE" ->
            IF Len(raw) # 4 THEN DecErr(0)
            ELSE IF DateAddOverflows(I32(raw)) THEN DecPanic(0)
            ELSE DecOk(0)
      [] ty = "UUID" -> format_uuid(raw)
      [] ty = "NUMERIC" -> parse_pg_numeric(raw)
      [] ty = "TIMETZ" -> format_timetz(raw)
      [] ty = "INTERVAL" -> format_interval(raw)
      [] ty = "INET" -> format_inet(raw)
      [] ty = "MACADDR" -> format_macaddr(raw)

\* one iteration of the leaf loop of read_elements
ReadElement(raw, pos, ty) ==
    IF pos + 4 > Len(raw) THEN [kind |-> "Err", pos |-> pos, alloc |-> 0]
    ELSE LET elem_len == I32(Slice(raw, pos, pos + 4)) IN
         IF elem_len < 0 THEN [kind |-> "Ok", pos |-> pos + 4, alloc |-> 0]
         ELSE IF elem_len > Len(raw) - (pos + 4)
              THEN [kind |-> "Err", pos |-> pos + 4, alloc |-> 0]
         ELSE LET e == raw_element_to_const(ty, Slice(raw, pos + 4, pos + 4 + elem_len))
              IN [kind |-> e.kind, pos |-> pos + 4 + elem_len, alloc |-> e.alloc]

RECURSIVE read_elements(_, _, _, _, _)
RECURSIVE ReadLoop(_, _, _, _, _, _)
\* read_elements: reserves dims[dim_idx] items, then loops dims[dim_idx] times
read_elements(raw, pos, dims, dim_idx, ty) ==
    LET r == ReadLoop(raw, pos, dims, dim_idx, ty, dims[dim_idx])
    IN [r EXCEPT !.alloc = Larger(dims[dim_idx], r.alloc)]

\* the loop with n iterations left; an iteration that succeeds without moving
\* pos is repeated unchanged by all that follow
ReadLoop(raw, pos, dims, dim_idx, ty, n) ==
    IF n = 0 THEN [kind |-> "Ok", pos |-> pos, alloc |-> 0]
    ELSE LET it == IF dim_idx = Len(dims) THEN ReadElement(raw, pos, ty)
                   ELSE read_elements(raw, pos, dims, dim_idx + 1, ty)
         IN IF it.kind # "Ok" \/ it.pos = pos THEN it
            ELSE LET rest == ReadLoop(raw, it.pos, dims, dim_idx, ty, n - 1)
                 IN [rest EXCEPT !.alloc = Larger(it.alloc, rest.alloc)]

\* parse_pg_array; raw.len() < 12 + ndim * 8 (in usize, which does not wrap
\* here) is written as a comparison of ndim with the dimensions that fit
parse_pg_array(raw, elem_type) ==
    IF Len(raw) < 12 THEN DecErr(0)
    ELSE LET ndim == I32(Slice(raw, 0, 4))
             header_end == 12 + ndim * 8
         IN IF ndim < 0 THEN DecErr(0)
            ELSE IF ndim = 0 THEN DecOk(0)
            ELSE IF ndim > (Len(raw) - 12) \div 8 THEN DecErr(0)
            ELSE LET dims == [i \in 1..ndim |->
                                I32(Slice(raw, 12 + (i - 1) * 8, 12 + (i - 1) * 8 + 4))]
                 IN IF \E i \in 1..ndim : dims[i] < 0 THEN DecErr(ndim)
                    ELSE LET r == read_elements(raw, header_end, dims, 1, elem_type)
                         IN [kind |-> r.kind, alloc |-> Larger(ndim, r.alloc)]

\* inputs: 4-byte words, concatenated and cut short by 0 or 2 bytes
W0 == <<0, 0, 0, 0>>
W1 == <<0, 0, 0, 1>>
W2 == <<0, 0, 0, 2>>
W4 == <<0, 0, 0, 4>>
WNeg == <<255, 255, 255, 255>>
WMax == <<127, 255, 255, 255>>

ScalarTypes == {"BOOL", "INT4", "DATE", "UUID", "NUMERIC", "TIMETZ", "INTERVAL",
                "INET", "MACADDR"}
ElemTypes == {"INT4", "DATE"}

Alphabet(ty) ==
    CASE ty \in {"BOOL", "INT4", "DATE"} -> {W0, W1, WNeg, WMax}
      [] ty \in {"UUID", "TIMETZ", "INTERVAL", "MACADDR"} -> {W0, WNeg, WMax}
      [] ty = "NUMERIC" -> {W0, W1, <<0, 1, 0, 0>>, <<0, 2, 0, 0>>, <<192, 0, 0, 0>>, WNeg}
      [] ty = "INET" -> {W0, <<2, 32, 0, 4>>, <<2, 32, 0, 16>>, <<3, 128, 0, 4>>, WNeg}

CutShort(bytes) ==
    {bytes} \cup {SubSeq(bytes, 1, Len(bytes) - k) : k \in {n \in {2} : Len(bytes) >= n}}

ScalarInputs(ty) ==
    UNION {CutShort(Flatten(ws)) : ws \in SeqsUpTo(Alphabet(ty), MaxScalarWords)}

\* an array: ndim, then has_null and the element oid (not read), then the rest
ArrayBytes(ws) ==
    IF ws = <<>> THEN <<>> ELSE ws[1] \o W0 \o W0 \o Flatten(Tail(ws))
ArrayInputs ==
    UNION {CutShort(ArrayBytes(ws)) : ws \in SeqsUpTo({W0, W1, W2, W4, WNeg, WMax}, MaxArrayWords)}

NotDecoded == DecErr(0)

InitPgwire ==
    /\ \/ \E ty \in ScalarTypes : \E raw \in ScalarInputs(ty) :
            pgwire = [array |-> FALSE, ty |-> ty, raw |-> raw,
                      done |-> FALSE, out |-> NotDecoded]
       \/ \E ty \in ElemTypes, raw \in ArrayInputs :
            pgwire = [array |-> TRUE, ty |-> ty, raw |-> raw,
                      done |-> FALSE, out |-> NotDecoded]
    /\ SqlIdle /\ IoIdle /\ CodecsIdle /\ LibIdle
    /\ url = <<>> /\ links = <<>> /\ heap = <<>>

\* raw_element_to_const(ty, raw)
DecodeElement ==
    /\ ~pgwire.done /\ ~pgwire.array
    /\ pgwire' = [pgwire EXCEPT !.done = TRUE,
                                !.out = raw_element_to_const(pgwire.ty, pgwire.raw)]
    /\ UNCHANGED <<sqlVars, ioVars, http, grpc, sse, sub, libVars, url, links, heap>>

\* parse_pg_array(raw, elem_type)
DecodeArray ==
    /\ ~pgwire.done /\ pgwire.array
    /\ pgwire' = [pgwire EXCEPT !.done = TRUE,
                                !.out = parse_pg_array(pgwire.raw, pgwire.ty)]
    /\ UNCHANGED <<sqlVars, ioVars, http, grpc, sse, sub, libVars, url, links, heap>>

NextPgwire == DecodeElement \/ DecodeArray

SpecPgwire == InitPgwire /\ [][NextPgwire]_vars

\* C24: whatever the bytes, a decoder returns a value or an error: it does
\* not panic, and it reserves no more items than the input has bytes.
DecodersFailCleanly ==
    (pgwire # <<>> /\ pgwire.done) =>
        /\ pgwire.out.kind \in {"Ok", "Err"}
        /\ pgwire.out.alloc <= Len(pgwire.raw)

----------------------------------------------------------------------------
(* gqlforge-chunk/src/chunk.rs: Chunk values that share Rc cells           *)
(* (specification SpecHeap).  A Collect holds a reference to a cell, the   *)
(* Rc<RefCell<Vec<A>>>; the program holds Chunk values in slots; an        *)
(* operation takes its operands by value, so it empties their slots.       *)

MaxLive == 3     \* slots of the program
MaxCells == 3    \* cells ever allocated
MaxOps == 3      \* operations of a run

Slots == 1..MaxLive
Dead == <<"Dead">>
CollectRc(id) == <<"CollectRc", id>>

RECURSIVE Occurrences(_, _)
\* the Rc pointers to cell id held inside the Chunk value c
Occurrences(c, id) ==
    CASE c[1] = "CollectRc" -> IF c[2] = id THEN 1 ELSE 0
      [] c[1] = "Concat" -> Occurrences(c[2], id) + Occurrences(c[3], id)
      [] c[1] = "TransformFlatten" -> Occurrences(c[2], id)
      [] OTHER -> 0

RECURSIVE SumOver(_, _, _)
SumOver(live, id, k) ==
    IF k = 0 THEN 0 ELSE Occurrences(live[k], id) + SumOver(live, id, k - 1)

\* Rc::strong_count(&vec): the pointers to the cell among the live values
StrongCount(live, id) == SumOver(live, id, MaxLive)

RECURSIVE Deref(_, _)
\* the Chunk value with every cell reference replaced by the cell's vector
Deref(cells, c) ==
    CASE c[1] = "CollectRc" -> Collect(cells[c[2]], 1)
      [] c[1] = "Concat" -> Concat(Deref(cells, c[2]), Deref(cells, c[3]))
      [] c[1] = "TransformFlatten" -> TransformFlatten(Deref(cells, c[2]), c[3])
      [] OTHER -> c

\* chunk.as_vec(), read through the cells
Observed(cells, c) == as_vec(Deref(cells, c))

Built(cells, value, pushed) == [cells |-> cells, value |-> value, pushed |-> pushed]

\* Chunk::concat that pushes in place whatever the strong count is
ConcatRcPushShared(cells, live, this, other) ==
    IF this = Empty THEN Built(cells, other, FALSE)
    ELSE IF other = Empty THEN Built(cells, this, FALSE)
    ELSE IF this[1] = "Single" /\ other[1] = "Single"
         THEN Built(Append(cells, <<this[2], other[2]>>), CollectRc(Len(cells) + 1), FALSE)
    ELSE IF this[1] = "CollectRc" /\ other[1] = "Single"
         THEN Built([cells EXCEPT ![this[2]] = Append(@, other[2])], this, TRUE)
    ELSE Built(cells, Concat(this, other), FALSE)

\* Chunk::concat on values that hold cell references
ConcatRc(cells, live, this, other) ==
    IF this = Empty THEN Built(cells, other, FALSE)
    ELSE IF other = Empty THEN Built(cells, this, FALSE)
    ELSE IF this[1] = "Single" /\ other[1] = "Single"
         THEN Built(Append(cells, <<this[2], other[2]>>), CollectRc(Len(cells) + 1), FALSE)
    ELSE IF this[1] = "CollectRc" /\ other[1] = "Single"
         THEN IF StrongCount(live, this[2]) = 1
              THEN Built([cells EXCEPT ![this[2]] = Append(@, other[2])], this, TRUE)
              ELSE Built(cells, Concat(this, other), FALSE)
    ELSE Built(cells, Concat(this, other), FALSE)

\* Chunk::is_null
is_null(cells, c) ==
    CASE c[1] = "Empty" -> TRUE
      [] c[1] = "CollectRc" -> cells[c[2]] = <<>>
      [] OTHER -> FALSE

\* Chunk::prepend
PrependRc(cells, live, this, a) ==
    IF is_null(cells, this) THEN Built(cells, Single(a), FALSE)
    ELSE ConcatRc(cells, live, Single(a), this)

\* Chunk::materialize
MaterializeRc(cells, this) ==
    Built(Append(cells, Observed(cells, this)), CollectRc(Len(cells) + 1), FALSE)

\* the first values of a run: Chunk::default(), Chunk::new(a), or a collected
\* vector in cell 1
InitHeap ==
    /\ \E first \in {Empty} \cup {Single(a) : a \in Elems} \cup {CollectRc(1)},
          vec \in Vecs :
        /\ first # CollectRc(1) => vec = <<>>
        /\ heap = [cells |-> IF first = CollectRc(1) THEN <<vec>> ELSE <<>>,
                   live |-> [s \in Slots |-> IF s = 1 THEN first ELSE Dead],
                   seen |-> [s \in Slots |->
                                IF s = 1 /\ first = CollectRc(1) THEN vec
                                ELSE IF s = 1 THEN as_vec(first) ELSE <<>>],
                   ops |-> 0, pushed |-> FALSE]
    /\ SqlIdle /\ IoIdle /\ CodecsIdle /\ LibIdle
    /\ url = <<>> /\ pgwire = <<>> /\ links = <<>>

\* the operation on slot s produced b: the result takes the slot
Store(s, b, live) ==
    heap' = [cells |-> b.cells,
             live |-> [live EXCEPT ![s] = b.value],
             seen |-> [heap.seen EXCEPT ![s] = Observed(b.cells, b.value)],
             ops |-> heap.ops + 1,
             pushed |-> b.pushed]

Others == <<sqlVars, ioVars, http, grpc, sse, sub, libVars, url, pgwire, links>>

\* let t = s.clone()
RcClone ==
    \E s \in Slots, t \in Slots :
        /\ heap.ops < MaxOps /\ heap.live[s] # Dead /\ heap.live[t] = Dead
        /\ heap' = [heap EXCEPT !.live[t] = heap.live[s],
                                !.seen[t] = Observed(heap.cells, heap.live[s]),
                                !.ops = @ + 1, !.pushed = FALSE]
        /\ UNCHANGED Others

\* s = s.append(a)
RcAppend ==
    \E s \in Slots, a \in Elems :
        /\ heap.ops < MaxOps /\ heap.live[s] # Dead
        /\ Len(heap.cells) < MaxCells
        /\ Store(s, ConcatRc(heap.cells, heap.live, heap.live[s], Single(a)), heap.live)
        /\ UNCHANGED Others

\* s = s.prepend(a)
RcPrepend ==
    \E s \in Slots, a \in Elems :
        /\ heap.ops < MaxOps /\ heap.live[s] # Dead
        /\ Len(heap.cells) < MaxCells
        /\ Store(s, PrependRc(heap.cells, heap.live, heap.live[s], a), heap.live)
        /\ UNCHANGED Others

\* s = s.concat(t): both operands are moved
RcConcat ==
    \E s \in Slots, t \in Slots :
        /\ heap.ops < MaxOps /\ s # t /\ heap.live[s] # Dead /\ heap.live[t] # Dead
        /\ Len(heap.cells) < MaxCells
        /\ Store(s, ConcatRc(heap.cells, heap.live, heap.live[s], heap.live[t]),
                 [heap.live EXCEPT ![t] = Dead])
        /\ UNCHANGED Others

\* s = s.transform_flatten(f)
RcTransform ==
    \E s \in Slots, f \in Transforms :
        /\ heap.ops < MaxOps /\ heap.live[s] # Dead
        /\ Store(s, Built(heap.cells, TransformFlatten(heap.live[s], f), FALSE), heap.live)
        /\ UNCHANGED Others

\* s = s.materialize()
RcMaterialize ==
    \E s \in Slots :
        /\ heap.ops < MaxOps /\ heap.live[s] # Dead
        /\ Len(heap.cells) < MaxCells
        /\ Store(s, MaterializeRc(heap.cells, heap.live[s]), heap.live)
        /\ UNCHANGED Others

\* drop(s)
RcDrop ==
    \E s \in Slots :
        /\ heap.ops < MaxOps /\ heap.live[s] # Dead
        /\ heap' = [heap EXCEPT !.live[s] = Dead, !.ops = @ + 1, !.pushed = FALSE]
        /\ UNCHANGED Others

NextHeap ==
    \/ RcClone \/ RcAppend \/ RcPrepend \/ RcConcat
    \/ RcTransform \/ RcMaterialize \/ RcDrop

SpecHeap == InitHeap /\ [][NextHeap]_vars

\* C21: every live Chunk value still shows the sequence it showed when it was
\* made, whatever was done since to other values, an in-place push included.
LiveValuesKeepTheirSequence ==
    heap # <<>> =>
        \A s \in Slots :
            heap.live[s] # Dead => Observed(heap.cells, heap.live[s]) = heap.seen[s]

\* the last operation pushed in place into a Collect while another non-empty
\* value is live
LiveValuesKeepTheirSequenceWitness ==
    /\ heap # <<>> /\ heap.pushed
    /\ \E s, t \in Slots :
        /\ s # t
        /\ heap.live[s] # Dead /\ heap.live[s][1] = "CollectRc"
        /\ heap.live[t] # Dead /\ heap.seen[t] # <<>>

====
